---- MODULE Spec2Model ----
(***************************************************************************)
(* Model of the resumable, rate-limited, concurrent batch-extraction       *)
(* pipeline of resume_extractor.py (class ResumeLLMParser).                *)
(*                                                                         *)
(*   Spec      process_all_resumes over several runs against one output    *)
(*             path: prior-state loading, filtering, the worker pool, the  *)
(*             collection loop, checkpoints, finalization, user interrupt  *)
(*             and process kill.                                           *)
(*   SpecParse one call of parse_resume_with_llm (retry state machine).    *)
(*   SpecRate  _rate_limited_request shared by concurrent workers, with a  *)
(*             discrete clock.                                             *)
(*                                                                         *)
(* Abstractions.  A document is identified by a number; the 55 columns of  *)
(* a row are two fields: resume_filename (the key column, whatever the     *)
(* model returned) and data (which document the other columns were         *)
(* extracted from).  The output path is one that contains ".csv" once, as  *)
(* the default candidates.csv, so that the four files of a run (output,    *)
(* output.tmp, output.interrupted, errors) are four distinct files.  A     *)
(* write is open(path,'w') (the file is truncated) followed by the write   *)
(* of header and rows; a kill between the two leaves the truncated file.   *)
(* Worker threads start queued work in submission order as soon as a       *)
(* thread is free; a started work item is in flight until it finishes.     *)
(***************************************************************************)
EXTENDS Integers, Sequences, FiniteSets, TLC

(***************************************************************************)
(* Bounds of the model.                                                    *)
(***************************************************************************)
SmallN == 4
MidN == 21
BigN == 45
MaxRuns == 2
BigRuns == 1
MaxIOFail == 1
MaxReadFailRow == 2
MaxSample == 2
RateWorkers == 2
MaxClock == 14
MaxAdmits == 3
MaxFails == 1
MaxDelay == 2
Epoch == 3
MaxCsvRows == 2

(***************************************************************************)
(* Program constants.                                                      *)
(***************************************************************************)
CHECKPOINT_EVERY == 20
MIN_TEXT_LEN == 50
MAX_ATTEMPTS == 3
BACKOFF_STEP == 10

(***************************************************************************)
(* Generic helpers.                                                        *)
(***************************************************************************)
Range(s) == {s[i] : i \in 1..Len(s)}

RECURSIVE SelectSeqBy(_, _)
\* subsequence of s of the elements in set S, order kept
SelectSeqBy(s, S) ==
    IF s = <<>> THEN <<>>
    ELSE IF Head(s) \in S THEN <<Head(s)>> \o SelectSeqBy(Tail(s), S)
         ELSE SelectSeqBy(Tail(s), S)

MapSeq(s, Op(_)) == [i \in 1..Len(s) |-> Op(s[i])]

IsPrefix(s, t) == Len(s) <= Len(t) /\ SubSeq(t, 1, Len(s)) = s

Min(a, b) == IF a <= b THEN a ELSE b

(***************************************************************************)
(* Input documents.  A scenario is a directory of PDF files together with  *)
(* the worker count given on the command line and the number of times the  *)
(* program is started on it.                                               *)
(***************************************************************************)
Scenarios ==
    { [name |-> "small", n |-> SmallN, workers |-> 2, runs |-> MaxRuns],
      [name |-> "mid",   n |-> MidN,   workers |-> 1, runs |-> MaxRuns],
      [name |-> "scans", n |-> MidN,   workers |-> 1, runs |-> MaxRuns],
      [name |-> "big",   n |-> BigN,   workers |-> 1, runs |-> BigRuns] }

\* what kind of document number i of scenario s is
Kind(s, i) ==
    CASE s.name = "small" ->
           (CASE i = 2 -> "blank" [] i = 3 -> "sparse" [] i = 4 -> "miskey"
              [] OTHER -> "good")
      [] s.name = "scans" -> (IF i <= CHECKPOINT_EVERY THEN "blank" ELSE "good")
      [] OTHER -> (IF i = 3 THEN "blank" ELSE "good")

\* the text extract_text_from_pdf returns: lead/trail are the whitespace
\* characters at both ends, nonblank and inner the non-whitespace and the
\* whitespace characters between them
Text(s, i) ==
    CASE Kind(s, i) = "blank"  -> [lead |-> 3, nonblank |-> 0,  inner |-> 0,  trail |-> 0]
      [] Kind(s, i) = "sparse" -> [lead |-> 0, nonblank |-> 30, inner |-> 25, trail |-> 1]
      [] OTHER                 -> [lead |-> 1, nonblank |-> 60, inner |-> 12, trail |-> 1]

TextLen(t) == t.lead + t.nonblank + t.inner + t.trail
\* len(text.strip())
StripLen(t) == t.nonblank + t.inner
\* number of non-blank characters of the text
NonBlank(t) == t.nonblank

Path(i) == [dir |-> "resumes", name |-> i]
\* os.path.basename
Basename(p) == p.name

\* os.walk of the directory, filtered on '.pdf' and 'resume'
PdfFiles(s) == [i \in 1..s.n |-> Path(i)]

(***************************************************************************)
(* Records.                                                                *)
(***************************************************************************)
NoRecord == [resume_filename |-> 0, data |-> 0, form |-> "none"]
Rec(key, doc) == [resume_filename |-> key, data |-> doc, form |-> "dict"]

\* a key the model may put into resume_filename instead of the file name
WrongKeys == {1}

\* what parse_resume_with_llm may return for the text of document i:
\* a validated record (with the resume_filename the model chose) or None
Replies(s, i) ==
    CASE Kind(s, i) = "sparse" -> {NoRecord, Rec(i, i)}
      [] Kind(s, i) = "miskey" -> {Rec(k, i) : k \in WrongKeys}
      [] OTHER                 -> {Rec(i, i)}

\* an exception leaving process_resume
Raised == [resume_filename |-> 0, data |-> 0, form |-> "raise"]

\* where an exception may be raised while a worker handles an item: in the
\* text extraction, in the model call, in the conversion of the record, or
\* in process_resume outside its three try blocks
WorkerFaults == {"none", "extract", "parse", "convert", "other"}

\* the faults that may hit document i of scenario s
FaultsOf(s, i) == IF Kind(s, i) = "sparse" THEN WorkerFaults ELSE {"none"}

\* the text check of line 524 left out
ProcessResumeNoCheck(text, reply, fault) == reply

\* process_resume: extraction and text check, model call, conversion
ProcessResume(text, reply, fault) ==
    IF fault = "other" THEN Raised
    ELSE IF fault = "extract" THEN NoRecord
    ELSE IF TextLen(text) = 0 \/ StripLen(text) < MIN_TEXT_LEN THEN NoRecord
    ELSE IF fault = "parse" THEN NoRecord
    ELSE IF fault = "convert" /\ reply.form # "none" THEN NoRecord
    ELSE reply

\* the model asked before the text is looked at
WorkerCallsParseFirst(text, reply, fault) ==
    <<"parse_resume_with_llm", "extract_text_from_pdf">>

\* the calls process_resume makes for an item, in order (lines 523, 533,
\* 543); parse_resume_with_llm is the only caller of the rate limiter
\* (line 453) and of the model (line 463)
WorkerCalls(text, reply, fault) ==
    IF fault = "other" THEN <<>>
    ELSE IF fault = "extract" \/ TextLen(text) = 0 \/ StripLen(text) < MIN_TEXT_LEN
         THEN <<"extract_text_from_pdf">>
    ELSE IF fault = "parse" \/ reply.form = "none"
         THEN <<"extract_text_from_pdf", "parse_resume_with_llm">>
    ELSE <<"extract_text_from_pdf", "parse_resume_with_llm", "dict">>

\* the wrapper without its except clause: the exception reaches the future
ParallelSafeBare(p, r) == [path |-> p, result |-> r, error |-> "None"]

\* process_resume_parallel_safe: (path, result, error)
ParallelSafe(p, r) ==
    IF r.form = "raise" THEN [path |-> p, result |-> NoRecord, error |-> "Processing error"]
    ELSE [path |-> p, result |-> r, error |-> "None"]

(***************************************************************************)
(* Files.                                                                  *)
(***************************************************************************)
NoFile == [exists |-> FALSE, hdr |-> FALSE, rows |-> <<>>]
Truncated == [exists |-> TRUE, hdr |-> FALSE, rows |-> <<>>]

\* csv.DictWriter row of a result (dict of values or dict of strings)
CsvRow(r) == [resume_filename |-> r.resume_filename, data |-> r.data]
\* csv.DictReader row: a dict of strings
DictRow(t) == [resume_filename |-> t.resume_filename, data |-> t.data, form |-> "str"]

\* a success file written without its header line
ResultsFileNoHeader(rows) == [exists |-> TRUE, hdr |-> FALSE, rows |-> MapSeq(rows, CsvRow)]
\* the file _save_results leaves when it completes
ResultsFile(rows) == [exists |-> TRUE, hdr |-> TRUE, rows |-> MapSeq(rows, CsvRow)]
\* an errors file that keeps the first record only
ErrorsFileFirstOnly(errs) == [exists |-> TRUE, hdr |-> TRUE, rows |-> SubSeq(errs, 1, 1)]
\* the file _save_errors leaves when it completes
ErrorsFile(errs) == [exists |-> TRUE, hdr |-> TRUE, rows |-> errs]

\* lines 570-595: the prior file chosen, read row by row
\* the temp file taken first
ChosenFileTmpFirst(out, tmp) ==
    IF tmp.exists THEN tmp ELSE IF out.exists THEN out ELSE NoFile
\* lines 572 and 586: the file the prior state is read from
ChosenFile(out, tmp) ==
    IF out.exists THEN out ELSE IF tmp.exists THEN tmp ELSE NoFile
\* the rows at which the read of a file can raise (decoding or csv error)
ReadFaults(file) == {k \in 1..Len(file.rows) : k <= MaxReadFailRow}
\* lines 575-579 and 589-593: rows are taken one at a time until the
\* reader raises at row failAt (0: it does not); what was taken stays
ReadUpTo(file, failAt) ==
    IF failAt = 0 THEN file.rows ELSE SubSeq(file.rows, 1, failAt - 1)
LoadExisting(out, tmp, failAt) ==
    MapSeq(ReadUpTo(ChosenFile(out, tmp), failAt), DictRow)

KeysOf(rows) == {rows[i].resume_filename : i \in 1..Len(rows)}

\* the filter of lines 603-608 left out
FilterProcessedNone(files, done) == files

\* lines 603-608
FilterProcessed(files, done) ==
    SelectSeqBy(files, {p \in Range(files) : Basename(p) \notin done})

\* --sample: an integer the caller gave, or None (main, line 817)
NoneSample == [given |-> FALSE, n |-> 0]
GivenSample(k) == [given |-> TRUE, n |-> k]

\* line 611, "if sample_size:": None and 0 are both false
Truthy(sample) == sample.given /\ sample.n # 0

\* lines 610-616
CapSample(files, sample, ndone) ==
    IF ~Truthy(sample) THEN files
    ELSE IF sample.n - ndone > 0
         THEN SubSeq(files, 1, Min(Len(files), sample.n - ndone))
         ELSE <<>>

\* lines 661-668
ErrorRecord(p, error) ==
    [resume_filename |-> Basename(p), pdf_path |-> p,
     error_reason |-> IF error = "None" THEN "LLM parsing failed - check resume format and content" ELSE error]

(***************************************************************************)
(* State.                                                                  *)
(***************************************************************************)
VARIABLES
    scn,               \* the directory and worker count of the runs
    run,               \* number of the current run
    pc,                \* where the orchestrator (main thread) is
    sample_size,       \* --sample of the current run
    provider_config,   \* provider, model and credential of the current run
    outFile, tmpFile, errFile, intFile,   \* the four files on disk
    results, errors,   \* the accumulators of process_all_resumes
    already_processed, \* the processed-key set
    todo,              \* pdf_files_to_process, all submitted to the pool
    wdone,             \* indices of todo whose worker has finished
    finq,              \* finished futures not yet yielded by as_completed
    completed, success_count,
    ioFails,           \* file-system faults raised so far
    priorRows,         \* history: the rows loaded at startup
    durableAtStart,    \* history: keys in output or temp file at startup
    readFail,          \* history: the row at which the startup read raised, 0 if none
    exit_status,       \* the status the process ended with, NotExited before
    corder,            \* history: this run's futures in completion order, with
                       \* the fault injected and the calls the worker made
    wlog,              \* history: this run's writes of success files
    ends               \* history: how each earlier run ended

ovars == <<scn, run, pc, sample_size, provider_config, outFile, tmpFile, errFile, intFile,
           results, errors, already_processed, todo, wdone, finq, completed,
           success_count, ioFails, priorRows, durableAtStart, readFail, corder, wlog, ends,
           exit_status>>

\* one call of parse_resume_with_llm
VARIABLES
    p_pc,              \* "off", "gate", "client", "attempt", "sleep", "done"
    attempt,           \* the loop variable of line 459
    prompt,            \* the blocks of the prompt (line 501)
    p_calls,           \* history: the model invocations made and their outcomes
    p_waits,           \* history: the backoff sleeps made
    p_ret              \* "pending", then what the call gave its caller

pvars == <<p_pc, attempt, prompt, p_calls, p_waits, p_ret>>

\* _rate_limited_request called from concurrent workers
VARIABLES
    clock,             \* time.time()
    delay,             \* the minimum interval
    rate_limit_lock,   \* the worker holding the lock, 0 when free
    last_request_time,
    r_pc,              \* per worker: "idle", in the gate ("locked", "tosleep",
                       \* "sleeping", "stamp"), "calling" or "backoff"
    r_now,             \* per worker: the local variable now
    r_wake,            \* per worker: when its sleep ends
    admits,            \* history: the values stored in last_request_time
    r_attempt,         \* per worker: the loop variable attempt of line 459
    calls,             \* history: the last two invocations of the model
    r_fails            \* number of invocations that have raised

rvars == <<clock, delay, rate_limit_lock, last_request_time, r_pc, r_now, r_wake, admits,
           r_attempt, calls, r_fails>>

\* one success file written, read back and written again
VARIABLES
    csv_pc,            \* where the round trip is
    csv_mem,           \* the list of result dicts in memory
    csv_disk,          \* the success file
    csv_first          \* the success file as the first write left it

cvars == <<csv_pc, csv_mem, csv_disk, csv_first>>

\* the files of one run by their path names
VARIABLES
    output_file,       \* the parameter output_file, a string as its characters
    fs,                \* the file system: path name -> what the file holds
    f_pc,              \* where the run is: "collect", "done", "interrupted"
    f_results,         \* len(results)
    f_errors,          \* len(errors)
    f_completed        \* the counter completed

fvars == <<output_file, fs, f_pc, f_results, f_errors, f_completed>>

\* one run of the pool from dispatch to the end, without clock
VARIABLES
    l_items,           \* len(pdf_files_to_process)
    l_next,            \* the next work item the pool starts
    l_pc,              \* where the orchestrator is: "collect", "final",
                       \* "shutdown", "interrupted"
    l_wpc,             \* per worker thread: where it is
    l_item,            \* per worker thread: its work item
    l_attempt,         \* per worker thread: the loop variable attempt
    l_lock,            \* rate_limit_lock: 0 when free, else its holder
    l_done,            \* the work items whose future is done
    l_completed        \* the counter completed

lvars == <<l_items, l_next, l_pc, l_wpc, l_item, l_attempt, l_lock, l_done, l_completed>>

vars == <<ovars, pvars, rvars, cvars, fvars, lvars>>

\* the parts of the state a specification does not use
\* lines 284-449: the prompt, a text kept as the sequence of its blocks
BasePrompt == <<"base">>
\* lines 490-501: strict_prompt = prompt + the block that lists the fields
StrictPrompt(p) == p \o <<"fields">>

ParseOff ==
    /\ p_pc = "off" /\ attempt = 0 /\ prompt = BasePrompt
    /\ p_calls = <<>> /\ p_waits = <<>> /\ p_ret = [kind |-> "pending", key |-> "none"]

RateOff ==
    /\ clock = 0 /\ delay = 0 /\ rate_limit_lock = 0 /\ last_request_time = 0
    /\ r_pc = <<>> /\ r_now = <<>> /\ r_wake = <<>> /\ admits = <<>>
    /\ r_attempt = <<>> /\ calls = <<>> /\ r_fails = 0

NoCsvFile == [exists |-> FALSE, lines |-> <<>>]

CsvOff ==
    /\ csv_pc = "off" /\ csv_mem = <<>>
    /\ csv_disk = NoCsvFile /\ csv_first = NoCsvFile

\* no file exists
NoFiles == <<>>

PathsOff ==
    /\ output_file = <<>> /\ fs = NoFiles /\ f_pc = "off"
    /\ f_results = 0 /\ f_errors = 0 /\ f_completed = 0

PoolOff ==
    /\ l_items = 0 /\ l_next = 0 /\ l_pc = "off"
    /\ l_wpc = <<>> /\ l_item = <<>> /\ l_attempt = <<>>
    /\ l_lock = 0 /\ l_done = {} /\ l_completed = 0

\* exit statuses: return from main, sys.exit(1) at lines 690 and 846-858
EXIT_OK == 0
EXIT_FAILURE == 1
NotExited == 2

SampleSizes == {NoneSample} \cup {GivenSample(k) : k \in 0..MaxSample}

\* the state of a process that has not started process_all_resumes yet
FreshMemory ==
    /\ results = <<>> /\ errors = <<>> /\ already_processed = {}
    /\ todo = <<>> /\ wdone = {} /\ finq = <<>>
    /\ completed = 0 /\ success_count = 0
    /\ priorRows = <<>> /\ durableAtStart = {} /\ corder = <<>> /\ wlog = <<>>
    /\ readFail = 0 /\ exit_status = NotExited
    /\ sample_size = NoneSample /\ provider_config = "ok"

Init ==
    /\ scn \in Scenarios
    /\ run = 1 /\ pc = "idle"
    /\ outFile = NoFile /\ tmpFile = NoFile /\ errFile = NoFile /\ intFile = NoFile
    /\ ioFails = 0 /\ ends = <<>>
    /\ FreshMemory
    /\ ParseOff /\ RateOff /\ CsvOff /\ PathsOff /\ PoolOff

Files == <<outFile, tmpFile, errFile, intFile>>
History == <<priorRows, durableAtStart, readFail, corder, wlog, ends>>

\* what the command line and the environment give the constructor: a usable
\* credential, no credential, one the provider's client rejects, or a
\* provider the parser does not know
Configs == {"ok", "no_key", "client_fails", "unsupported"}

\* a constructor that builds no client: every configuration is accepted
InitializeClientLazy(config) == "client"

\* _initialize_client, lines 168-223: the client, or a ValueError
InitializeClient(config) == IF config = "ok" THEN "client" ELSE "ValueError"

\* a work list that is never taken for empty
NothingToProcessNever(work) == FALSE

\* lines 626-628, "if total_to_process == 0: ... return"
NothingToProcess(work) == Len(work) = 0

(***************************************************************************)
(* process_all_resumes, lines 566-645: load the prior state, enumerate,    *)
(* filter, cap, return early or submit every work item to the pool.        *)
(***************************************************************************)
StartRun(sample) ==
    /\ pc = "idle"
    /\ \E config \in Configs :
         /\ InitializeClient(config) = "client"
         /\ provider_config' = config
    /\ \E failAt \in {0} \cup ReadFaults(ChosenFile(outFile, tmpFile)) :
         /\ failAt > 0 => ioFails < MaxIOFail
         /\ readFail' = failAt
         /\ ioFails' = IF failAt > 0 THEN ioFails + 1 ELSE ioFails
         /\ LET prior == LoadExisting(outFile, tmpFile, failAt)
                keys  == KeysOf(prior)
                work  == CapSample(FilterProcessed(PdfFiles(scn), keys), sample,
                                   Cardinality(keys))
            IN /\ sample_size' = sample
               /\ results' = prior
               /\ already_processed' = keys
               /\ todo' = work
               /\ priorRows' = MapSeq(prior, CsvRow)
               /\ durableAtStart' = KeysOf(outFile.rows) \cup KeysOf(tmpFile.rows)
               /\ pc' = IF NothingToProcess(work) THEN "done" ELSE "collect"
    /\ exit_status' = IF pc' = "done" THEN EXIT_OK ELSE NotExited
    /\ UNCHANGED <<pvars, rvars, cvars, fvars, lvars>>
    /\ UNCHANGED <<scn, run, Files, errors, wdone, finq, completed,
                   success_count, corder, wlog, ends>>

\* main, lines 831-848: ResumeLLMParser(...) raises ValueError in __init__
\* (line 166), process_all_resumes is not called, sys.exit(1)
ConstructFails ==
    /\ pc = "idle"
    /\ \E config \in Configs :
         /\ InitializeClient(config) = "ValueError"
         /\ provider_config' = config
    /\ pc' = "config_error"
    /\ exit_status' = EXIT_FAILURE
    /\ UNCHANGED <<pvars, rvars, cvars, fvars, lvars>>
    /\ UNCHANGED <<scn, run, sample_size, Files, results, errors,
                   already_processed, todo, wdone, finq, completed,
                   success_count, ioFails, History>>

\* the orchestrator is alive and the pool exists
PoolAlive == pc \in {"collect", "ckpt_tmp", "ckpt_tmp_w", "ckpt_err", "ckpt_err_w", "shutdown"}

\* ThreadPoolExecutor: work starts in submission order, max_workers at a time
InFlight == {i \in 1..Len(todo) : i \notin wdone /\ i <= Cardinality(wdone) + scn.workers}

\* a worker thread finishes process_resume_parallel_safe for todo[i]
WorkerFinish ==
    /\ PoolAlive
    /\ \E i \in InFlight :
         /\ \E reply \in Replies(scn, Basename(todo[i])) :
            \E fault \in FaultsOf(scn, Basename(todo[i])) :
              LET triple == ParallelSafe(todo[i],
                               ProcessResume(Text(scn, Basename(todo[i])), reply, fault))
                  made == WorkerCalls(Text(scn, Basename(todo[i])), reply, fault)
              IN /\ finq' = Append(finq, triple)
                 /\ corder' = Append(corder,
                        [path |-> triple.path, result |-> triple.result,
                         error |-> triple.error, fault |-> fault, calls |-> made])
         /\ wdone' = wdone \cup {i}
    /\ UNCHANGED <<exit_status, provider_config>>
    /\ UNCHANGED <<pvars, rvars, cvars, fvars, lvars>>
    /\ UNCHANGED <<scn, run, pc, sample_size, Files, results, errors,
                   already_processed, todo, completed, success_count, ioFails,
                   priorRows, durableAtStart, readFail, wlog, ends>>

\* where the loop goes after a completion is handled (and checkpointed)
AfterCompletion(n) == IF n = Len(todo) THEN "fin_out" ELSE "collect"

\* the newest completion taken instead of the oldest
NextCompletedNewest(q) == q[Len(q)]
\* line 648: the future as_completed yields next
NextCompleted(q) == Head(q)
RestCompleted(q) == Tail(q)

\* line 657
\* a new row written over the last accumulated one
AppendResultOver(rs, r) == IF rs = <<>> THEN <<r>> ELSE [rs EXCEPT ![Len(rs)] = r]
\* a new row put in front of the accumulated ones
AppendResultFront(rs, r) == <<r>> \o rs
AppendResult(rs, r) == Append(rs, r)

\* line 674
\* checkpoints one completion late, or at every tenth completion
CheckpointDueLate(n) == n % CHECKPOINT_EVERY = 1
CheckpointDueTenth(n) == n % (CHECKPOINT_EVERY \div 2) = 0
CheckpointDue(n) == n % CHECKPOINT_EVERY = 0

\* lines 648-674: one iteration of the collection loop up to the checkpoint test
Handle ==
    /\ pc = "collect"
    /\ finq # <<>>
    /\ LET f == NextCompleted(finq)
       IN /\ finq' = RestCompleted(finq)
          /\ completed' = completed + 1
          /\ IF f.result.form # "none"
                THEN /\ results' = AppendResult(results, f.result)
                     /\ success_count' = success_count + 1
                     /\ errors' = errors
                ELSE /\ errors' = Append(errors, ErrorRecord(f.path, f.error))
                     /\ UNCHANGED <<results, success_count>>
          /\ pc' = IF CheckpointDue(completed + 1) THEN "ckpt_tmp"
                   ELSE AfterCompletion(completed + 1)
    /\ UNCHANGED <<exit_status, provider_config>>
    /\ UNCHANGED <<pvars, rvars, cvars, fvars, lvars>>
    /\ UNCHANGED <<scn, run, sample_size, Files, already_processed, todo,
                   wdone, ioFails, History>>

(***************************************************************************)
(* History of the writes of success files: which file, at which count of   *)
(* completions, and whether the write is open, finished or failed.         *)
(***************************************************************************)
Logged(file, st) == Append(wlog, [file |-> file, at |-> completed, st |-> st])
Settled(st) == [wlog EXCEPT ![Len(wlog)].st = st]

FaultPossible == ioFails < MaxIOFail

(***************************************************************************)
(* Lines 674-681: the checkpoint.  _save_results and _save_errors return   *)
(* without touching the file when their list is empty.                     *)
(***************************************************************************)
CkptSaveResults ==
    /\ pc = "ckpt_tmp"
    /\ IF results = <<>>
         THEN /\ pc' = "ckpt_err"
              /\ UNCHANGED <<tmpFile, wlog>>
         ELSE /\ tmpFile' = Truncated
              /\ wlog' = Logged("tmp", "open")
              /\ pc' = "ckpt_tmp_w"
    /\ UNCHANGED <<exit_status, provider_config>>
    /\ UNCHANGED <<pvars, rvars, cvars, fvars, lvars>>
    /\ UNCHANGED <<scn, run, sample_size, outFile, errFile, intFile, results,
                   errors, already_processed, todo, wdone, finq, completed,
                   success_count, ioFails, priorRows, durableAtStart, readFail, corder, ends>>

CkptWriteResults ==
    /\ pc = "ckpt_tmp_w"
    /\ tmpFile' = ResultsFile(results)
    /\ wlog' = Settled("ok")
    /\ pc' = "ckpt_err"
    /\ UNCHANGED <<exit_status, provider_config>>
    /\ UNCHANGED <<pvars, rvars, cvars, fvars, lvars>>
    /\ UNCHANGED <<scn, run, sample_size, outFile, errFile, intFile, results,
                   errors, already_processed, todo, wdone, finq, completed,
                   success_count, ioFails, priorRows, durableAtStart, readFail, corder, ends>>

CkptSaveErrors ==
    /\ pc = "ckpt_err"
    /\ IF errors = <<>>
         THEN /\ pc' = AfterCompletion(completed)
              /\ UNCHANGED errFile
         ELSE /\ errFile' = Truncated
              /\ pc' = "ckpt_err_w"
    /\ UNCHANGED <<exit_status, provider_config>>
    /\ UNCHANGED <<pvars, rvars, cvars, fvars, lvars>>
    /\ UNCHANGED <<scn, run, sample_size, outFile, tmpFile, intFile, results,
                   errors, already_processed, todo, wdone, finq, completed,
                   success_count, ioFails, History>>

CkptWriteErrors ==
    /\ pc = "ckpt_err_w"
    /\ errFile' = ErrorsFile(errors)
    /\ pc' = AfterCompletion(completed)
    /\ UNCHANGED <<exit_status, provider_config>>
    /\ UNCHANGED <<pvars, rvars, cvars, fvars, lvars>>
    /\ UNCHANGED <<scn, run, sample_size, outFile, tmpFile, intFile, results,
                   errors, already_processed, todo, wdone, finq, completed,
                   success_count, ioFails, History>>

\* a failed checkpoint write that ends the run
AfterCkptFaultRaise(n) == "crashed"
\* lines 680-681: the exception is caught, a warning printed, the loop goes on
AfterCkptFault(n) == AfterCompletion(n)

\* lines 675-681: open() or a write raises inside the try (the errors file
\* is skipped when the temp file failed)
CkptFault ==
    /\ FaultPossible
    /\ \/ pc = "ckpt_tmp" /\ results # <<>> /\ wlog' = Logged("tmp", "fail")
       \/ pc = "ckpt_tmp_w" /\ wlog' = Settled("fail")
       \/ pc = "ckpt_err" /\ errors # <<>> /\ wlog' = wlog
       \/ pc = "ckpt_err_w" /\ wlog' = wlog
    /\ ioFails' = ioFails + 1
    /\ pc' = AfterCkptFault(completed)
    /\ UNCHANGED <<exit_status, provider_config>>
    /\ UNCHANGED <<pvars, rvars, cvars, fvars, lvars>>
    /\ UNCHANGED <<scn, run, sample_size, Files, results, errors,
                   already_processed, todo, wdone, finq, completed, success_count,
                   priorRows, durableAtStart, readFail, corder, ends>>

(***************************************************************************)
(* Lines 694-719: finalization.                                            *)
(***************************************************************************)
FinSaveResults ==
    /\ pc = "fin_out"
    /\ IF results = <<>>
         THEN /\ pc' = "fin_err"
              /\ UNCHANGED <<outFile, wlog>>
         ELSE /\ outFile' = Truncated
              /\ wlog' = Logged("out", "open")
              /\ pc' = "fin_out_w"
    /\ UNCHANGED <<exit_status, provider_config>>
    /\ UNCHANGED <<pvars, rvars, cvars, fvars, lvars>>
    /\ UNCHANGED <<scn, run, sample_size, tmpFile, errFile, intFile, results,
                   errors, already_processed, todo, wdone, finq, completed,
                   success_count, ioFails, priorRows, durableAtStart, readFail, corder, ends>>

FinWriteResults ==
    /\ pc = "fin_out_w"
    /\ outFile' = ResultsFile(results)
    /\ wlog' = Settled("ok")
    /\ pc' = "fin_rm"
    /\ UNCHANGED <<exit_status, provider_config>>
    /\ UNCHANGED <<pvars, rvars, cvars, fvars, lvars>>
    /\ UNCHANGED <<scn, run, sample_size, tmpFile, errFile, intFile, results,
                   errors, already_processed, todo, wdone, finq, completed,
                   success_count, ioFails, priorRows, durableAtStart, readFail, corder, ends>>

\* lines 703-707
FinRemoveTmp ==
    /\ pc = "fin_rm"
    /\ tmpFile' = NoFile
    /\ pc' = "fin_err"
    /\ UNCHANGED <<exit_status, provider_config>>
    /\ UNCHANGED <<pvars, rvars, cvars, fvars, lvars>>
    /\ UNCHANGED <<scn, run, sample_size, outFile, errFile, intFile, results,
                   errors, already_processed, todo, wdone, finq, completed,
                   success_count, ioFails, History>>

\* lines 716-719
FinSaveErrors ==
    /\ pc = "fin_err"
    /\ IF errors = <<>>
         THEN /\ pc' = "done"
              /\ UNCHANGED errFile
         ELSE /\ errFile' = Truncated
              /\ pc' = "fin_err_w"
    /\ exit_status' = IF pc' = "done" THEN EXIT_OK ELSE NotExited
    /\ UNCHANGED provider_config
    /\ UNCHANGED <<pvars, rvars, cvars, fvars, lvars>>
    /\ UNCHANGED <<scn, run, sample_size, outFile, tmpFile, intFile, results,
                   errors, already_processed, todo, wdone, finq, completed,
                   success_count, ioFails, History>>

FinWriteErrors ==
    /\ pc = "fin_err_w"
    /\ errFile' = ErrorsFile(errors)
    /\ pc' = "done"
    /\ exit_status' = EXIT_OK
    /\ UNCHANGED provider_config
    /\ UNCHANGED <<pvars, rvars, cvars, fvars, lvars>>
    /\ UNCHANGED <<scn, run, sample_size, outFile, tmpFile, intFile, results,
                   errors, already_processed, todo, wdone, finq, completed,
                   success_count, ioFails, History>>

(***************************************************************************)
(* Lines 683-692: KeyboardInterrupt inside the try block.  The exception   *)
(* leaves the with-block of the executor first, whose exit waits for every *)
(* submitted work item; then the handler saves and calls sys.exit(1).      *)
(***************************************************************************)
Interrupt ==
    /\ pc \in {"collect", "ckpt_tmp", "ckpt_tmp_w", "ckpt_err", "ckpt_err_w"}
    /\ wlog' = IF pc = "ckpt_tmp_w" THEN Settled("fail") ELSE wlog
    /\ pc' = "shutdown"
    /\ UNCHANGED <<exit_status, provider_config>>
    /\ UNCHANGED <<pvars, rvars, cvars, fvars, lvars>>
    /\ UNCHANGED <<scn, run, sample_size, Files, results, errors,
                   already_processed, todo, wdone, finq, completed, success_count,
                   ioFails, priorRows, durableAtStart, readFail, corder, ends>>

\* ThreadPoolExecutor.__exit__: shutdown(wait=True)
ShutdownDone ==
    /\ pc = "shutdown"
    /\ wdone = 1..Len(todo)
    /\ pc' = "int_save"
    /\ UNCHANGED <<exit_status, provider_config>>
    /\ UNCHANGED <<pvars, rvars, cvars, fvars, lvars>>
    /\ UNCHANGED <<scn, run, sample_size, Files, results, errors,
                   already_processed, todo, wdone, finq, completed, success_count,
                   ioFails, History>>

IntSaveResults ==
    /\ pc = "int_save"
    /\ IF results = <<>>
         THEN /\ pc' = "interrupted"
              /\ UNCHANGED <<intFile, wlog>>
         ELSE /\ intFile' = Truncated
              /\ wlog' = Logged("int", "open")
              /\ pc' = "int_save_w"
    /\ exit_status' = IF pc' = "interrupted" THEN EXIT_FAILURE ELSE NotExited
    /\ UNCHANGED provider_config
    /\ UNCHANGED <<pvars, rvars, cvars, fvars, lvars>>
    /\ UNCHANGED <<scn, run, sample_size, outFile, tmpFile, errFile, results,
                   errors, already_processed, todo, wdone, finq, completed,
                   success_count, ioFails, priorRows, durableAtStart, readFail, corder, ends>>

IntWriteResults ==
    /\ pc = "int_save_w"
    /\ intFile' = ResultsFile(results)
    /\ wlog' = Settled("ok")
    /\ pc' = "interrupted"
    /\ exit_status' = EXIT_FAILURE
    /\ UNCHANGED provider_config
    /\ UNCHANGED <<pvars, rvars, cvars, fvars, lvars>>
    /\ UNCHANGED <<scn, run, sample_size, outFile, tmpFile, errFile, results,
                   errors, already_processed, todo, wdone, finq, completed,
                   success_count, ioFails, priorRows, durableAtStart, readFail, corder, ends>>

\* open() or a write raises outside the checkpoint's try: the exception
\* reaches main, which prints it and exits with status 1
AbortFault ==
    /\ FaultPossible
    /\ \/ pc = "fin_out" /\ results # <<>> /\ wlog' = Logged("out", "fail")
       \/ pc = "fin_out_w" /\ wlog' = Settled("fail")
       \/ pc = "fin_err" /\ errors # <<>> /\ wlog' = wlog
       \/ pc = "fin_err_w" /\ wlog' = wlog
       \/ pc = "int_save" /\ results # <<>> /\ wlog' = Logged("int", "fail")
       \/ pc = "int_save_w" /\ wlog' = Settled("fail")
    /\ ioFails' = ioFails + 1
    /\ pc' = "crashed"
    /\ exit_status' = EXIT_FAILURE
    /\ UNCHANGED provider_config
    /\ UNCHANGED <<pvars, rvars, cvars, fvars, lvars>>
    /\ UNCHANGED <<scn, run, sample_size, Files, results, errors,
                   already_processed, todo, wdone, finq, completed, success_count,
                   priorRows, durableAtStart, readFail, corder, ends>>

(***************************************************************************)
(* The process is killed (SIGKILL, power loss): memory is gone, the files  *)
(* stay as they are.                                                       *)
(***************************************************************************)
Running == pc \notin {"idle", "done", "killed", "interrupted", "crashed", "config_error"}

Kill ==
    /\ Running
    /\ pc' = "killed"
    /\ results' = <<>> /\ errors' = <<>> /\ already_processed' = {}
    /\ todo' = <<>> /\ wdone' = {} /\ finq' = <<>>
    /\ completed' = 0 /\ success_count' = 0
    /\ priorRows' = <<>> /\ durableAtStart' = {} /\ corder' = <<>> /\ wlog' = <<>>
    /\ readFail' = 0 /\ exit_status' = NotExited
    /\ sample_size' = NoneSample /\ provider_config' = "ok"
    /\ UNCHANGED <<pvars, rvars, cvars, fvars, lvars>>
    /\ UNCHANGED <<scn, run, Files, ioFails, ends>>

\* the user starts the program again on the same directory and output path
NextRun ==
    /\ pc \in {"done", "killed", "interrupted", "crashed", "config_error"}
    /\ run < scn.runs
    /\ run' = run + 1
    /\ pc' = "idle"
    /\ ends' = Append(ends, [how |-> pc, sample |-> sample_size, out |-> outFile])
    /\ results' = <<>> /\ errors' = <<>> /\ already_processed' = {}
    /\ todo' = <<>> /\ wdone' = {} /\ finq' = <<>>
    /\ completed' = 0 /\ success_count' = 0
    /\ priorRows' = <<>> /\ durableAtStart' = {} /\ corder' = <<>> /\ wlog' = <<>>
    /\ readFail' = 0 /\ exit_status' = NotExited
    /\ sample_size' = NoneSample /\ provider_config' = "ok"
    /\ UNCHANGED <<pvars, rvars, cvars, fvars, lvars>>
    /\ UNCHANGED <<scn, Files, ioFails>>

Orchestrate ==
    \/ \E sample \in SampleSizes : StartRun(sample)
    \/ ConstructFails
    \/ WorkerFinish
    \/ Handle
    \/ CkptSaveResults \/ CkptWriteResults \/ CkptSaveErrors \/ CkptWriteErrors
    \/ CkptFault
    \/ FinSaveResults \/ FinWriteResults \/ FinRemoveTmp
    \/ FinSaveErrors \/ FinWriteErrors
    \/ Interrupt \/ ShutdownDone \/ IntSaveResults \/ IntWriteResults
    \/ AbortFault
    \/ Kill
    \/ NextRun

Next == Orchestrate

Spec == Init /\ [][Next]_vars

(***************************************************************************)
(* parse_resume_with_llm, lines 451-506.  What client.chat.completions     *)
(* .create does is an input: it returns a validated ResumeData or raises   *)
(* an exception whose text carries a throttling/server marker ("429",      *)
(* "rate limit", "500", "internal server error"), a validation marker      *)
(* ("tool call validation failed", "Failed to call a function"), both or   *)
(* neither.  The record returned carries in resume_filename the name the   *)
(* prompt asked for or another one.                                        *)
(***************************************************************************)
CreateOutcomes ==
    {[ok |-> TRUE, rate |-> FALSE, valid |-> FALSE, key |-> k] : k \in {"asked", "other"}}
    \cup {[ok |-> FALSE, rate |-> r, valid |-> v, key |-> "none"] : r, v \in BOOLEAN}

Pending == [kind |-> "pending", key |-> "none"]
Returned(o) == [kind |-> "record", key |-> o.key]
ReturnedNone == [kind |-> "none", key |-> "none"]

\* lines 475-476
IsTransient(e) == e.rate
\* lines 486-487
\* every error taken for a validation error
IsValidationAnyError(e, a) == a < MAX_ATTEMPTS - 1
IsValidation(e, a) == e.valid /\ a < MAX_ATTEMPTS - 1
\* line 477
\* a back-off counted from zero
WaitTimeFromZero(a) == BACKOFF_STEP * a
WaitTime(a) == BACKOFF_STEP * (a + 1)
\* line 459: range(3)
\* a loop that runs one attempt too many
InLoopOneMore(a) == a <= MAX_ATTEMPTS
InLoop(a) == a < MAX_ATTEMPTS
\* lines 504-506: what the caller gets when an exception reaches the outer except
Caught == ReturnedNone

ParseInit ==
    /\ p_pc = "gate" /\ attempt = 0 /\ prompt = BasePrompt
    /\ p_calls = <<>> /\ p_waits = <<>> /\ p_ret = [kind |-> "pending", key |-> "none"]

\* line 453
PGate ==
    /\ p_pc = "gate"
    /\ p_pc' = "client"
    /\ UNCHANGED <<attempt, prompt, p_calls, p_waits, p_ret>>
    /\ UNCHANGED <<ovars, rvars, cvars, fvars, lvars>>

\* line 456: _get_client builds a client or raises ValueError
PClient ==
    /\ p_pc = "client"
    /\ \/ p_pc' = "attempt" /\ p_ret' = p_ret
       \/ p_pc' = "done" /\ p_ret' = Caught
    /\ UNCHANGED <<attempt, prompt, p_calls, p_waits>>
    /\ UNCHANGED <<ovars, rvars, cvars, fvars, lvars>>

\* lines 460-502: one attempt and the classification of its error
PAttempt ==
    /\ p_pc = "attempt"
    /\ \E o \in CreateOutcomes :
         /\ p_calls' = Append(p_calls, [attempt |-> attempt, prompt |-> prompt, outcome |-> o])
         /\ IF o.ok
              THEN /\ p_ret' = Returned(o) /\ p_pc' = "done"
                   /\ UNCHANGED <<attempt, prompt, p_waits>>
            ELSE IF IsTransient(o)
              THEN /\ p_waits' = Append(p_waits, [after |-> attempt, secs |-> WaitTime(attempt)])
                   /\ p_pc' = "sleep"
                   /\ UNCHANGED <<attempt, prompt, p_ret>>
            ELSE IF IsValidation(o, attempt)
              THEN /\ prompt' = StrictPrompt(prompt)
                   /\ attempt' = attempt + 1
                   /\ p_pc' = "attempt"
                   /\ UNCHANGED <<p_waits, p_ret>>
            ELSE /\ p_ret' = Caught /\ p_pc' = "done"
                 /\ UNCHANGED <<attempt, prompt, p_waits>>
    /\ UNCHANGED <<ovars, rvars, cvars, fvars, lvars>>

\* lines 482-483: the sleep ends, continue; the function returns None when
\* the loop is exhausted
PWake ==
    /\ p_pc = "sleep"
    /\ attempt' = attempt + 1
    /\ IF InLoop(attempt + 1)
         THEN p_pc' = "attempt" /\ p_ret' = p_ret
         ELSE p_pc' = "done" /\ p_ret' = ReturnedNone
    /\ UNCHANGED <<prompt, p_calls, p_waits>>
    /\ UNCHANGED <<ovars, rvars, cvars, fvars, lvars>>

OrchOff ==
    /\ scn = [name |-> "none", n |-> 0, workers |-> 0, runs |-> 0]
    /\ run = 0 /\ pc = "off"
    /\ outFile = NoFile /\ tmpFile = NoFile /\ errFile = NoFile /\ intFile = NoFile
    /\ ioFails = 0 /\ ends = <<>>
    /\ FreshMemory

InitParse == OrchOff /\ RateOff /\ CsvOff /\ PathsOff /\ PoolOff /\ ParseInit

NextParse == PGate \/ PClient \/ PAttempt \/ PWake

SpecParse == InitParse /\ [][NextParse]_vars

(***************************************************************************)
(* _rate_limited_request, lines 272-279, called by RateWorkers threads.    *)
(* Time is a counter any step may find advanced; time.sleep(d) returns     *)
(* when at least d has passed.                                             *)
(***************************************************************************)
Workers == 1..RateWorkers

\* line 274: the lock can be taken
\* a gate entered without the lock
LockFreeAlways(l) == TRUE
LockFree(l) == l = 0
\* line 277
MustSleep(since, d) == since < d
\* line 278: the argument of time.sleep
SleepFor(since, d) == d - since

InitRate ==
    /\ OrchOff /\ ParseOff /\ CsvOff /\ PathsOff /\ PoolOff
    /\ clock = Epoch
    /\ delay \in 1..MaxDelay
    /\ rate_limit_lock = 0
    /\ last_request_time = 0
    /\ r_pc = [w \in Workers |-> "idle"]
    /\ r_now = [w \in Workers |-> 0]
    /\ r_wake = [w \in Workers |-> 0]
    /\ admits = <<>>
    /\ r_attempt = [w \in Workers |-> 0]
    /\ calls = <<>> /\ r_fails = 0

Tick ==
    /\ clock < MaxClock
    /\ clock' = clock + 1
    /\ UNCHANGED <<delay, rate_limit_lock, last_request_time, r_pc, r_now, r_wake, admits, r_attempt, calls, r_fails>>
    /\ UNCHANGED <<ovars, pvars, cvars, fvars, lvars>>

\* line 274: with self.rate_limit_lock
RAcquire(w) ==
    /\ r_pc[w] = "idle"
    /\ Len(admits) < MaxAdmits
    /\ LockFree(rate_limit_lock)
    /\ rate_limit_lock' = w
    /\ r_pc' = [r_pc EXCEPT ![w] = "locked"]
    /\ UNCHANGED <<clock, delay, last_request_time, r_now, r_wake, admits, r_attempt, calls, r_fails>>
    /\ UNCHANGED <<ovars, pvars, cvars, fvars, lvars>>

\* lines 275-277
RCheck(w) ==
    /\ r_pc[w] = "locked"
    /\ r_now' = [r_now EXCEPT ![w] = clock]
    /\ r_pc' = [r_pc EXCEPT ![w] =
                  IF MustSleep(clock - last_request_time, delay) THEN "tosleep" ELSE "stamp"]
    /\ UNCHANGED <<clock, delay, rate_limit_lock, last_request_time, r_wake, admits, r_attempt, calls, r_fails>>
    /\ UNCHANGED <<ovars, pvars, cvars, fvars, lvars>>

\* line 278: time.sleep is entered
RSleep(w) ==
    /\ r_pc[w] = "tosleep"
    /\ r_wake' = [r_wake EXCEPT ![w] = clock + SleepFor(r_now[w] - last_request_time, delay)]
    /\ r_pc' = [r_pc EXCEPT ![w] = "sleeping"]
    /\ UNCHANGED <<clock, delay, rate_limit_lock, last_request_time, r_now, admits, r_attempt, calls, r_fails>>
    /\ UNCHANGED <<ovars, pvars, cvars, fvars, lvars>>

\* line 278: time.sleep returns
RWake(w) ==
    /\ r_pc[w] = "sleeping"
    /\ clock >= r_wake[w]
    /\ r_pc' = [r_pc EXCEPT ![w] = "stamp"]
    /\ UNCHANGED <<clock, delay, rate_limit_lock, last_request_time, r_now, r_wake, admits, r_attempt, calls, r_fails>>
    /\ UNCHANGED <<ovars, pvars, cvars, fvars, lvars>>

\* a lock kept when the with block is left
ReleaseNever(l, w) == l

\* a lock only another thread can release
ReleaseByOther(l, w) == IF l = w THEN l ELSE 0

\* line 279, the end of the with block: the lock is released
Release(l, w) == IF l = w THEN 0 ELSE l

\* an invocation of the model: who, which attempt, when it starts
Invocation(w, a) == [w |-> w, attempt |-> a, at |-> clock]

\* the history of invocations keeps the last one and the new one
Invoked(w, a) ==
    IF calls = <<>> THEN <<Invocation(w, a)>>
    ELSE <<calls[Len(calls)], Invocation(w, a)>>

\* line 279 and the end of the with block; the worker goes on to the first
\* client.chat.completions.create (lines 456-463), taken to start when the
\* gate is left
RStamp(w) ==
    /\ r_pc[w] = "stamp"
    /\ last_request_time' = clock
    /\ admits' = Append(admits, clock)
    /\ rate_limit_lock' = Release(rate_limit_lock, w)
    /\ r_pc' = [r_pc EXCEPT ![w] = "calling"]
    /\ r_now' = [r_now EXCEPT ![w] = 0]
    /\ r_wake' = [r_wake EXCEPT ![w] = 0]
    /\ r_attempt' = [r_attempt EXCEPT ![w] = 0]
    /\ calls' = Invoked(w, 0)
    /\ UNCHANGED <<clock, delay, r_fails>>
    /\ UNCHANGED <<ovars, pvars, cvars, fvars, lvars>>

\* lines 463-503: create returns or raises; the record is returned, the
\* error is slept on, answered with the next attempt at once, or raised to
\* the outer except; after the return the worker takes its next item
RCallEnds(w) ==
    /\ r_pc[w] = "calling"
    /\ \E o \in {c \in CreateOutcomes : c.key # "other"} :
         /\ ~o.ok => r_fails < MaxFails
         /\ r_fails' = IF o.ok THEN r_fails ELSE r_fails + 1
         /\ IF o.ok
              THEN /\ r_pc' = [r_pc EXCEPT ![w] = "idle"]
                   /\ r_attempt' = [r_attempt EXCEPT ![w] = 0]
                   /\ UNCHANGED <<r_wake, calls>>
            ELSE IF IsTransient(o)
              THEN /\ r_pc' = [r_pc EXCEPT ![w] = "backoff"]
                   /\ r_wake' = [r_wake EXCEPT ![w] = clock + WaitTime(r_attempt[w])]
                   /\ UNCHANGED <<r_attempt, calls>>
            ELSE IF IsValidation(o, r_attempt[w])
              THEN /\ r_attempt' = [r_attempt EXCEPT ![w] = r_attempt[w] + 1]
                   /\ calls' = Invoked(w, r_attempt[w] + 1)
                   /\ UNCHANGED <<r_pc, r_wake>>
            ELSE /\ r_pc' = [r_pc EXCEPT ![w] = "idle"]
                 /\ r_attempt' = [r_attempt EXCEPT ![w] = 0]
                 /\ UNCHANGED <<r_wake, calls>>
    /\ UNCHANGED <<clock, delay, rate_limit_lock, last_request_time, r_now, admits>>
    /\ UNCHANGED <<ovars, pvars, cvars, fvars, lvars>>

\* lines 482-483: time.sleep(wait_time) returns, continue: the next attempt
\* starts, or the loop is exhausted and the function returns None
RBackoffEnds(w) ==
    /\ r_pc[w] = "backoff"
    /\ clock >= r_wake[w]
    /\ r_wake' = [r_wake EXCEPT ![w] = 0]
    /\ IF InLoop(r_attempt[w] + 1)
         THEN /\ r_attempt' = [r_attempt EXCEPT ![w] = r_attempt[w] + 1]
              /\ r_pc' = [r_pc EXCEPT ![w] = "calling"]
              /\ calls' = Invoked(w, r_attempt[w] + 1)
         ELSE /\ r_attempt' = [r_attempt EXCEPT ![w] = 0]
              /\ r_pc' = [r_pc EXCEPT ![w] = "idle"]
              /\ UNCHANGED calls
    /\ UNCHANGED <<clock, delay, rate_limit_lock, last_request_time, r_now, admits, r_fails>>
    /\ UNCHANGED <<ovars, pvars, cvars, fvars, lvars>>

NextRate ==
    \/ Tick
    \/ \E w \in Workers : RAcquire(w)
    \/ \E w \in Workers : RCheck(w)
    \/ \E w \in Workers : RSleep(w)
    \/ \E w \in Workers : RWake(w)
    \/ \E w \in Workers : RStamp(w)
    \/ \E w \in Workers : RCallEnds(w)
    \/ \E w \in Workers : RBackoffEnds(w)

SpecRate == InitRate /\ [][NextRate]_vars

(***************************************************************************)
(* The success file as text: _save_results (lines 742-773) writes it, the  *)
(* startup code (lines 575-579, 589-593) reads it back.  A string is the   *)
(* sequence of its characters, a line of the file the sequence of its      *)
(* fields; a value in memory is an int, a float or a str.                  *)
(***************************************************************************)
\* lines 54-147: the fields of the ResumeData schema in the order of the
\* class, with their types
ResumeData ==
    << [name |-> <<"resume_filename">>, type |-> "str"],
       [name |-> <<"candidate_name">>, type |-> "str"], [name |-> <<"email">>, type |-> "str"],
       [name |-> <<"github_link">>, type |-> "str"],
       [name |-> <<"linkedin_link">>, type |-> "str"], [name |-> <<"country">>, type |-> "str"],
       [name |-> <<"city">>, type |-> "str"],
       [name |-> <<"college_education_years">>, type |-> "int"],
       [name |-> <<"highest_degree">>, type |-> "str"],
       [name |-> <<"bachelors_university">>, type |-> "str"],
       [name |-> <<"graduate_university">>, type |-> "str"],
       [name |-> <<"university_tier">>, type |-> "int"],
       [name |-> <<"overall_world_ranking">>, type |-> "int"],
       [name |-> <<"cs_world_ranking">>, type |-> "int"],
       [name |-> <<"bachelors_gpa">>, type |-> "float"],
       [name |-> <<"masters_gpa">>, type |-> "float"],
       [name |-> <<"estimated_job_level">>, type |-> "str"],
       [name |-> <<"programming_experience_years">>, type |-> "float"],
       [name |-> <<"companies_worked">>, type |-> "str"],
       [name |-> <<"company_tier">>, type |-> "int"],
       [name |-> <<"cs_internships">>, type |-> "int"],
       [name |-> <<"javascript_skill_level">>, type |-> "int"],
       [name |-> <<"python_skill_level">>, type |-> "int"],
       [name |-> <<"react_strength">>, type |-> "int"],
       [name |-> <<"typescript_strength">>, type |-> "int"],
       [name |-> <<"nextjs_strength">>, type |-> "int"],
       [name |-> <<"tailwind_strength">>, type |-> "int"],
       [name |-> <<"api_design_strength">>, type |-> "int"],
       [name |-> <<"cloud_skill_level">>, type |-> "int"],
       [name |-> <<"cloud_experience_years">>, type |-> "float"],
       [name |-> <<"aws_services_experience">>, type |-> "str"],
       [name |-> <<"database_technologies">>, type |-> "str"],
       [name |-> <<"ai_experience_years">>, type |-> "float"],
       [name |-> <<"llm_skill_level">>, type |-> "int"],
       [name |-> <<"llm_experience_years">>, type |-> "float"],
       [name |-> <<"ai_tools_experience">>, type |-> "str"],
       [name |-> <<"llm_api_experience">>, type |-> "str"],
       [name |-> <<"git_strength">>, type |-> "int"],
       [name |-> <<"agile_strength">>, type |-> "int"],
       [name |-> <<"algorithms_strength">>, type |-> "int"],
       [name |-> <<"system_design_strength">>, type |-> "int"],
       [name |-> <<"startup_experience_strength">>, type |-> "int"],
       [name |-> <<"open_source_strength">>, type |-> "int"],
       [name |-> <<"leadership_strength">>, type |-> "int"],
       [name |-> <<"autonomy_indicators">>, type |-> "str"],
       [name |-> <<"academic_strength">>, type |-> "int"],
       [name |-> <<"cs_strength">>, type |-> "int"],
       [name |-> <<"industry_strength">>, type |-> "int"],
       [name |-> <<"fullstack_strength">>, type |-> "int"],
       [name |-> <<"opensource_strength">>, type |-> "int"],
       [name |-> <<"accomplishments_strength">>, type |-> "int"],
       [name |-> <<"overall_score">>, type |-> "float"],
       [name |-> <<"accomplishment_1">>, type |-> "str"],
       [name |-> <<"accomplishment_2">>, type |-> "str"],
       [name |-> <<"accomplishment_3">>, type |-> "str"] >>

\* the names and the type of a field of the schema
SchemaFields == {ResumeData[k].name : k \in 1..Len(ResumeData)}
TypeOf(c) == ResumeData[CHOOSE k \in 1..Len(ResumeData) : ResumeData[k].name = c].type

\* a header that leaves the two link columns out
FieldNamesNoLinks ==
    SelectSeq([k \in 1..Len(ResumeData) |-> ResumeData[k].name],
              LAMBDA c : c \notin {<<"github_link">>, <<"linkedin_link">>})
\* lines 747-768: the column names in the order of the file
FIELDNAMES ==
    << <<"resume_filename">>, <<"candidate_name">>, <<"email">>, <<"github_link">>,
       <<"linkedin_link">>, <<"country">>, <<"city">>, <<"estimated_job_level">>,
       <<"programming_experience_years">>, <<"ai_experience_years">>,
       <<"college_education_years">>, <<"highest_degree">>, <<"bachelors_university">>,
       <<"graduate_university">>, <<"university_tier">>, <<"overall_world_ranking">>,
       <<"cs_world_ranking">>, <<"bachelors_gpa">>, <<"masters_gpa">>, <<"companies_worked">>,
       <<"company_tier">>, <<"javascript_skill_level">>, <<"python_skill_level">>,
       <<"cloud_skill_level">>, <<"llm_skill_level">>, <<"cs_internships">>,
       <<"cloud_experience_years">>, <<"llm_experience_years">>, <<"react_strength">>,
       <<"typescript_strength">>, <<"nextjs_strength">>, <<"api_design_strength">>,
       <<"tailwind_strength">>, <<"git_strength">>, <<"agile_strength">>,
       <<"aws_services_experience">>, <<"database_technologies">>, <<"ai_tools_experience">>,
       <<"llm_api_experience">>, <<"startup_experience_strength">>, <<"open_source_strength">>,
       <<"leadership_strength">>, <<"autonomy_indicators">>, <<"algorithms_strength">>,
       <<"system_design_strength">>, <<"academic_strength">>, <<"cs_strength">>,
       <<"industry_strength">>, <<"fullstack_strength">>, <<"opensource_strength">>,
       <<"accomplishments_strength">>, <<"overall_score">>, <<"accomplishment_1">>,
       <<"accomplishment_2">>, <<"accomplishment_3">> >>

IntVal(n) == [t |-> "int", v |-> n]
StrVal(s) == [t |-> "str", v |-> s]
\* a float, kept as the text str() gives for it
FloatVal(s) == [t |-> "float", v |-> s]

\* the values a validated ResumeData may carry
FileNames == {<<"f">>, <<"g">>}
Names == {<<"a">>, <<"a", "LF", "b">>, <<"a", "CR", "LF", "b">>}
JobLevels == {<<"M">>}
Years == {4, 16}
Gpa == <<"3", ".", "5">>
Unknown == <<"U">>

\* ResumeData.dict(), lines 54-147 and 543
ResumeDicts ==
    { [c \in SchemaFields |->
          CASE c = <<"resume_filename">> -> StrVal(f)
            [] c = <<"candidate_name">> -> StrVal(n)
            [] c = <<"estimated_job_level">> -> StrVal(j)
            [] c \notin {<<"resume_filename">>, <<"candidate_name">>, <<"estimated_job_level">>}
                 /\ TypeOf(c) = "int" -> IntVal(y)
            [] c \notin {<<"resume_filename">>, <<"candidate_name">>, <<"estimated_job_level">>}
                 /\ TypeOf(c) = "float" -> FloatVal(Gpa)
            [] OTHER -> StrVal(Unknown)] :
        f \in FileNames, n \in Names, j \in JobLevels, y \in Years }

DigitChars == <<"0", "1", "2", "3", "4", "5", "6", "7", "8", "9">>

RECURSIVE Digits(_)
\* str(n) of a natural number
Digits(n) ==
    IF n < 10 THEN <<DigitChars[n + 1]>>
    ELSE Digits(n \div 10) \o <<DigitChars[(n % 10) + 1]>>

\* what csv.writer puts into a field: str(value)
FieldOf(x) == IF x.t = "int" THEN Digits(x.v) ELSE x.v

\* line 773, DictWriter.writerows: the fields of a dict in FIELDNAMES order
WriteRow(d) == [k \in 1..Len(FIELDNAMES) |-> FieldOf(d[FIELDNAMES[k]])]

\* lines 770-773: the file _save_results writes (newline='': fields go to
\* the file as they are)
WriteCsv(rows) ==
    [exists |-> TRUE, lines |-> <<FIELDNAMES>> \o [k \in 1..Len(rows) |-> WriteRow(rows[k])]]

RECURSIVE UniversalNewlines(_)
\* lines 575 and 589, open(path, 'r'): text mode without newline='' turns
\* every "\r\n" and every "\r" into "\n", inside quoted fields as well
UniversalNewlines(s) ==
    IF s = <<>> THEN <<>>
    ELSE IF Head(s) = "CR"
         THEN <<"LF">> \o UniversalNewlines(
                    IF Len(s) > 1 /\ s[2] = "LF" THEN Tail(Tail(s)) ELSE Tail(s))
         ELSE <<Head(s)>> \o UniversalNewlines(Tail(s))

\* the lines csv.reader gets from the file object
ReadLines(file) ==
    [k \in 1..Len(file.lines) |->
        [c \in 1..Len(file.lines[k]) |-> UniversalNewlines(file.lines[k][c])]]

\* lines 576-578, csv.DictReader: the first line names the columns, every
\* other line is a dict of strings
ReadCsv(file) ==
    LET ls == ReadLines(file)
    IN [k \in 1..(Len(ls) - 1) |->
          [c \in Range(ls[1]) |->
              StrVal(ls[k + 1][CHOOSE i \in 1..Len(ls[1]) : ls[1][i] = c])]]

InitCsv ==
    /\ OrchOff /\ ParseOff /\ RateOff /\ PathsOff /\ PoolOff
    /\ csv_pc = "mem"
    /\ \E n \in 1..MaxCsvRows : csv_mem \in [1..n -> ResumeDicts]
    /\ csv_disk = NoCsvFile /\ csv_first = NoCsvFile

\* _save_results on the list in memory: checkpoint, finalization or
\* interrupted snapshot
CsvSave ==
    /\ csv_pc \in {"mem", "loaded"}
    /\ csv_disk' = IF csv_mem = <<>> THEN csv_disk ELSE WriteCsv(csv_mem)
    /\ csv_first' = IF csv_pc = "mem" THEN csv_disk' ELSE csv_first
    /\ csv_pc' = IF csv_pc = "mem" THEN "saved" ELSE "resaved"
    /\ UNCHANGED csv_mem
    /\ UNCHANGED <<ovars, pvars, rvars, fvars, lvars>>

\* the next run reads the file into its accumulator
CsvLoad ==
    /\ csv_pc = "saved"
    /\ csv_mem' = ReadCsv(csv_disk)
    /\ csv_pc' = "loaded"
    /\ UNCHANGED <<csv_disk, csv_first>>
    /\ UNCHANGED <<ovars, pvars, rvars, fvars, lvars>>

NextCsv == CsvSave \/ CsvLoad

SpecCsv == InitCsv /\ [][NextCsv]_vars

(***************************************************************************)
(* Properties.                                                             *)
(***************************************************************************)
\* the documents submitted to the pool in this run
Dispatched == {Basename(todo[k]) : k \in 1..Len(todo)}
\* the rows a sequence of completions puts into the success file
RowsOf(completions) ==
    MapSeq(SelectSeq(completions, LAMBDA f : f.result.form # "none"),
           LAMBDA f : CsvRow(f.result))
HasRow(file, i) == \E k \in 1..Len(file.rows) : file.rows[k].data = i
HasError(errs, i) == \E k \in 1..Len(errs) : errs[k].pdf_path = Path(i)
\* the run ended normally after a collection loop (not by the early return)
EndedNormally == pc = "done" /\ Len(todo) > 0
\* the process is being killed in this step
KillStep == pc # "killed" /\ pc' = "killed"
WroteFinal == \E k \in 1..Len(wlog) : wlog[k].file = "out" /\ wlog[k].st = "ok"

\* C1: no work item whose file name is in the processed-key set recovered
\* at startup is submitted to the worker pool, nor completed by a worker.
C1_AtMostOnceDispatch ==
    /\ \A k \in 1..Len(todo) : Basename(todo[k]) \notin already_processed
    /\ \A k \in 1..Len(corder) : Basename(corder[k].path) \notin already_processed

C1_Witness ==
    /\ pc = "collect" /\ wdone # {}
    /\ \E i \in 1..scn.n : i \in already_processed
    /\ \E i \in 1..scn.n : i \in Dispatched

\* C2: after two runs that both ended normally on the same documents, the
\* final file has exactly one row for every input document that can be
\* extracted and parsed, no key twice, and the rows of the first run are
\* kept where they were.
C2_IdempotentResume ==
    (run = 2 /\ pc = "done" /\ ends[1].how = "done"
        /\ ~Truthy(sample_size) /\ ~Truthy(ends[1].sample) /\ ioFails = 0)
    => /\ \A i \in 1..scn.n :
            LET rows == {k \in 1..Len(outFile.rows) :
                            outFile.rows[k].resume_filename = i}
            IN /\ Cardinality(rows) <= 1
               /\ Kind(scn, i) \in {"good", "miskey"} => Cardinality(rows) = 1
       /\ IsPrefix(ends[1].out.rows, outFile.rows)

\* C3: when a run has ended normally and written the final file, its rows
\* are the rows loaded at startup, in their order, followed by the new
\* successes in the order in which the workers completed.
C3_FinalRowsOrder ==
    (EndedNormally /\ WroteFinal)
    => outFile.rows = priorRows \o RowsOf(corder)

C3_Witness ==
    /\ EndedNormally /\ WroteFinal
    /\ priorRows # <<>>
    /\ success_count >= 1
    /\ \E k \in 1..Len(corder) : \E l \in 1..Len(corder) :
          k < l /\ Basename(corder[k].path) > Basename(corder[l].path)

\* C4: any two consecutive values stored in last_request_time by admitted
\* callers differ by at least delay, whatever the number of workers.
C4_RateFloor ==
    \A k \in 2..Len(admits) : admits[k] - admits[k-1] >= delay

C4_Witness ==
    /\ Len(admits) >= 3
    /\ admits[2] - admits[1] = delay
    /\ delay = MaxDelay

\* the success rows among the first n completions of this run
FirstSuccesses(n) == RowsOf(SubSeq(corder, 1, Min(n, Len(corder))))
NoTmpWriteFailed == \A k \in 1..Len(wlog) : wlog[k].st # "fail"

\* C5 as stated: a kill after 20 successful completions, before the run
\* has finished, finds the temp file complete and holding the first 20
\* successes of the run (no file-system fault having occurred).
C5_Original ==
    [][(KillStep /\ success_count >= CHECKPOINT_EVERY /\ ioFails = 0)
        => /\ tmpFile.exists /\ tmpFile.hdr
           /\ \A k \in 1..CHECKPOINT_EVERY :
                 \E j \in 1..Len(tmpFile.rows) :
                    tmpFile.rows[j] = CsvRow(results[Len(priorRows) + k])]_vars

\* C5 amended: a kill during collection, outside a write of the temp file,
\* after 20 completions (successes and failures) with no failed checkpoint
\* write and at least one accumulated row by the 20th completion, finds the
\* temp file complete: header, the rows loaded at startup and then every
\* success among the first 20 completions.
C5_CheckpointDurability ==
    [][(/\ KillStep
        /\ pc \in {"collect", "ckpt_err", "ckpt_err_w"}
        /\ completed >= CHECKPOINT_EVERY
        /\ NoTmpWriteFailed
        /\ priorRows \o FirstSuccesses(CHECKPOINT_EVERY) # <<>>)
        => /\ tmpFile'.exists /\ tmpFile'.hdr
           /\ IsPrefix(priorRows \o FirstSuccesses(CHECKPOINT_EVERY), tmpFile'.rows)]_vars

C5_Witness ==
    /\ pc = "killed" /\ run = 1
    /\ tmpFile.exists /\ tmpFile.hdr /\ Len(tmpFile.rows) >= CHECKPOINT_EVERY - 1
    /\ ~outFile.exists

\* the property of C6 for a given measure of "near-empty"
ErrorIsolation(Measure(_)) ==
    /\ \A i \in 1..scn.n :
          Measure(Text(scn, i)) < MIN_TEXT_LEN
          => /\ ~HasRow(tmpFile, i) /\ ~HasRow(outFile, i) /\ ~HasRow(intFile, i)
             /\ \A k \in 1..Len(results) : results[k].data # i
    /\ EndedNormally
       => \A i \in Dispatched :
             IF Measure(Text(scn, i)) < MIN_TEXT_LEN
               THEN HasError(errors, i) /\ HasError(errFile.rows, i)
               ELSE Replies(scn, i) \cap {NoRecord} = {} => HasRow(outFile, i)

\* C6 as stated: an item with fewer than 50 non-blank characters of text is
\* in the error list and in no success file, the others reach their outcome.
C6_Original == ErrorIsolation(NonBlank)

\* C6 amended: an item whose text has fewer than 50 characters once leading
\* and trailing whitespace is stripped is in the error list and error file
\* and in no success file; every other item of the batch whose model call
\* succeeds has its row in the final file.
C6_ErrorIsolation == ErrorIsolation(StripLen)

C6_Witness ==
    /\ EndedNormally /\ scn.workers > 1
    /\ \E k \in 1..Len(corder) : \E l \in 1..Len(corder) :
          /\ k < l
          /\ Kind(scn, Basename(corder[k].path)) = "blank"
          /\ Kind(scn, Basename(corder[l].path)) = "good"
          /\ HasRow(outFile, Basename(corder[l].path))
          /\ HasError(errFile.rows, Basename(corder[k].path))

\* the writes of success files of this run: which file at which count
Writes == MapSeq(wlog, LAMBDA e : [file |-> e.file, at |-> e.at])
\* the count of completions at which the accumulator got its first row
FirstRowAt ==
    IF priorRows # <<>> THEN 0
    ELSE IF \E k \in 1..Len(corder) : corder[k].result.form # "none"
      THEN CHOOSE k \in 1..Len(corder) :
              /\ corder[k].result.form # "none"
              /\ \A j \in 1..(k-1) : corder[j].result.form = "none"
      ELSE Len(corder) + 1
RECURSIVE TmpWritesFrom(_, _, _)
\* the temp-file writes at the multiples m..last of 20 not below from
TmpWritesFrom(m, last, from) ==
    IF m > last THEN <<>>
    ELSE (IF m * CHECKPOINT_EVERY >= from
            THEN <<[file |-> "tmp", at |-> m * CHECKPOINT_EVERY]>> ELSE <<>>)
         \o TmpWritesFrom(m + 1, last, from)
UnrecordedAreErrors ==
    \A i \in Dispatched : ~HasRow(outFile, i) => HasError(errFile.rows, i)

\* C7 as stated: a run of N items that ends normally has written the temp
\* file once at every multiple of 20 completions and the final file once at
\* the end, nothing else; 3 writes for N = 45 (no file-system fault having
\* occurred).
C7_Original ==
    (EndedNormally /\ ioFails = 0)
    => /\ Writes = TmpWritesFrom(1, Len(todo) \div CHECKPOINT_EVERY, 0)
                   \o <<[file |-> "out", at |-> Len(todo)]>>
       /\ Len(todo) = 45 => Len(wlog) = 3
       /\ Len(outFile.rows) - Len(priorRows) <= Len(todo)
       /\ UnrecordedAreErrors

\* C7 amended: a write of the temp file is made once at every multiple of
\* 20 completions at which the accumulator holds a row, one write of the
\* final file at the end if it holds a row, and no other; for N = 45 at most
\* 3 writes, 3 when a row was there by the 20th completion; at most N new
\* rows, and every dispatched item without a row is in the error file.
C7_CheckpointWrites ==
    EndedNormally
    => /\ Writes = TmpWritesFrom(1, Len(todo) \div CHECKPOINT_EVERY, FirstRowAt)
                   \o (IF results # <<>>
                         THEN <<[file |-> "out", at |-> Len(todo)]>> ELSE <<>>)
       /\ Len(todo) = 45 => Len(wlog) <= 3
       /\ (Len(todo) = 45 /\ FirstRowAt <= CHECKPOINT_EVERY) => Len(wlog) = 3
       /\ results # <<>> => Len(outFile.rows) - Len(priorRows) <= Len(todo)
       /\ UnrecordedAreErrors

C7_Witness ==
    /\ EndedNormally /\ Len(todo) > 2 * CHECKPOINT_EVERY
    /\ Len(wlog) = 3
    /\ errors # <<>>

\* C8: no run dispatches a work item whose key had a row in the final
\* output file or in the temp file when the run started (no file-system
\* fault having occurred).
C8_NoReprocess ==
    ioFails = 0 => \A k \in 1..Len(todo) : Basename(todo[k]) \notin durableAtStart

\* the last model invocation made
LastCall == p_calls[Len(p_calls)]

Strengthened(p) == \E j \in 1..Len(p) : p[j] = "fields"
\* the error of call k says that validation failed
ValidationFailure(k) == ~p_calls[k].outcome.ok /\ p_calls[k].outcome.valid

\* C11: a validation failure on attempt 0 or 1 is followed by an attempt
\* made with the strengthened prompt, every later attempt of the call keeps
\* it, and a validation failure on the last attempt ends the call with no
\* record.
C11_StrengthenedRetry ==
    /\ \A k \in 1..Len(p_calls) :
          (ValidationFailure(k) /\ p_calls[k].attempt < 2)
          => /\ p_pc # "done" \/ k < Len(p_calls)
             /\ k < Len(p_calls) => Strengthened(p_calls[k+1].prompt)
             /\ (k = Len(p_calls) /\ p_pc = "attempt") => Strengthened(prompt)
    /\ \A k \in 1..Len(p_calls) : \A l \in k..Len(p_calls) :
          Strengthened(p_calls[k].prompt) => Strengthened(p_calls[l].prompt)
    /\ \A k \in 1..Len(p_calls) :
          (ValidationFailure(k) /\ p_calls[k].attempt = 2 /\ p_pc = "done")
          => k = Len(p_calls) /\ p_ret.kind = "none"

\* a validation failure the code takes as one: no throttling marker in it
HandledAsValidation(k) == ValidationFailure(k) /\ ~p_calls[k].outcome.rate

\* C12: within one call a validation failure is retried at most once: a
\* second validation failure, coming after the re-issue with the
\* strengthened prompt, is the last invocation and the call returns no
\* record.
C12_ValidationRetriedOnce ==
    \A k \in 1..Len(p_calls) : \A l \in (k+1)..Len(p_calls) :
        (HandledAsValidation(k) /\ HandledAsValidation(l))
        => l = Len(p_calls) /\ p_pc = "done" /\ p_ret.kind = "none"

\* the error of call k carries neither a throttling/server marker nor a
\* validation marker
OtherFailure(k) ==
    ~p_calls[k].outcome.ok /\ ~p_calls[k].outcome.rate /\ ~p_calls[k].outcome.valid

\* C13: an error that is neither throttling/server nor validation ends the
\* call at once: it is the last invocation, no wait follows it and the call
\* returns no record.
C13_OtherErrorIsFatal ==
    \A k \in 1..Len(p_calls) :
        OtherFailure(k)
        => /\ k = Len(p_calls)
           /\ p_pc = "done" /\ p_ret.kind = "none"
           /\ \A j \in 1..Len(p_waits) : p_waits[j].after # p_calls[k].attempt
           /\ attempt = p_calls[k].attempt

C13_Witness ==
    /\ Len(p_calls) = 2 /\ OtherFailure(2)
    /\ Len(p_waits) = 1
    /\ p_pc = "done"

\* the orchestrator goes through the startup code in this step
StartStep == pc = "idle" /\ pc' \notin {"idle", "config_error"}

\* C14: startup takes the prior state from the output file when it exists,
\* from the temp file only when the output file does not exist, and the
\* prior rows and processed keys are the rows and keys of that file; both
\* are empty when neither file exists.
C14_LoadPreference ==
    [][(StartStep /\ readFail' = 0)
        => /\ outFile.exists
              => /\ MapSeq(results', CsvRow) = outFile.rows
                 /\ already_processed' = KeysOf(outFile.rows)
           /\ (~outFile.exists /\ tmpFile.exists)
              => /\ MapSeq(results', CsvRow) = tmpFile.rows
                 /\ already_processed' = KeysOf(tmpFile.rows)
           /\ (~outFile.exists /\ ~tmpFile.exists)
              => results' = <<>> /\ already_processed' = {}]_vars

C14_Witness ==
    /\ run = 2 /\ pc = "collect" /\ readFail = 0 /\ wlog = <<>>
    /\ outFile.exists /\ tmpFile.exists
    /\ outFile.rows # tmpFile.rows /\ outFile.rows # <<>> /\ tmpFile.rows # <<>>
    /\ MapSeq(results, CsvRow) = outFile.rows

\* C15: when the read of the prior file fails at some row the run goes on
\* with no prior state: no prior row and no processed key, and nothing of
\* the file read reaches the final output.
C15_FailedReadNoPriorState ==
    readFail > 0
    => /\ priorRows = <<>> /\ already_processed = {}
       /\ pc # "idle"
       /\ (EndedNormally /\ WroteFinal) => outFile.rows = RowsOf(corder)

\* a checkpoint write (temp file or errors file) raises in this step
CkptFaultStep ==
    /\ pc \in {"ckpt_tmp", "ckpt_tmp_w", "ckpt_err", "ckpt_err_w"}
    /\ ioFails' = ioFails + 1
TmpWriteFailedAt(n) ==
    \E k \in 1..Len(wlog) : wlog[k] = [file |-> "tmp", at |-> n, st |-> "fail"]

\* the checkpoints after completion n that have been passed were attempted
LaterCheckpointsTried(n) ==
    \A m \in (n+1)..completed :
        (CheckpointDue(m) /\ (pc = "collect" \/ completed > m))
        => \E k \in 1..Len(wlog) : wlog[k].file = "tmp" /\ wlog[k].at = m
\* the run ended normally with every completion handled and all rows written
FinalizedAll ==
    /\ completed = Len(todo)
    /\ success_count + Len(errors) = Len(todo)
    /\ results # <<>> => outFile = ResultsFile(results)
RunGoesOn == pc \notin {"killed", "crashed", "interrupted"}

\* C16: a failed checkpoint write leaves both accumulators and the pool's
\* work as they were and the run goes on with the loop or, after the last
\* completion, with finalization; a run that ends normally after a failed
\* write of the temp file has handled every completion, attempted the later
\* checkpoints and written all accumulated rows to the final file.
C16_CheckpointFaultNonFatal ==
    /\ [][CkptFaultStep
           => /\ results' = results /\ errors' = errors
              /\ <<todo, wdone, finq, completed, success_count>>'
                   = <<todo, wdone, finq, completed, success_count>>
              /\ pc' = IF completed = Len(todo) THEN "fin_out" ELSE "collect"]_vars
    /\ [](\A n \in 1..Len(todo) :
             (TmpWriteFailedAt(n) /\ RunGoesOn)
             => /\ LaterCheckpointsTried(n)
                /\ EndedNormally => FinalizedAll)

C16_Witness ==
    /\ EndedNormally /\ Len(todo) = 45
    /\ TmpWriteFailedAt(20)
    /\ \E k \in 1..Len(wlog) : wlog[k] = [file |-> "tmp", at |-> 40, st |-> "ok"]
    /\ WroteFinal

\* process_all_resumes has returned normally
ReturnedNormally == pc = "done"

\* C17: when a run has ended normally with at least one accumulated success
\* row, prior or new, all accumulated rows are in the output file and the
\* temp file does not exist (no file-system fault having occurred).
C17_FinalizeWritesAndCleans ==
    (ReturnedNormally /\ results # <<>> /\ ioFails = 0)
    => outFile = ResultsFile(results) /\ ~tmpFile.exists

\* the same for the runs that went through the collection loop
C17_AfterCollection ==
    (EndedNormally /\ results # <<>>)
    => outFile = ResultsFile(results) /\ ~tmpFile.exists

\* the interrupt arrives in this step, or its handling is under way
InterruptStep == pc \in {"collect", "ckpt_tmp", "ckpt_tmp_w", "ckpt_err", "ckpt_err_w"}
                 /\ pc' = "shutdown"
InterruptHandling == pc \in {"shutdown", "int_save", "int_save_w"}

\* C18: from a KeyboardInterrupt during collection to the exit of the
\* process the output file, the temp file and the errors file stay as they
\* were; when the process has exited with at least one accumulated row, the
\* file <output>.interrupted holds the header and all accumulated rows and
\* the exit status is not zero.
C18_InterruptedSnapshot ==
    /\ [][(InterruptStep \/ InterruptHandling)
           => outFile' = outFile /\ tmpFile' = tmpFile /\ errFile' = errFile]_vars
    /\ []((pc = "interrupted" /\ results # <<>>)
           => /\ intFile.exists /\ intFile.hdr
              /\ intFile.rows = MapSeq(results, CsvRow)
              /\ exit_status # 0)

C18_Witness ==
    /\ pc = "interrupted" /\ exit_status = 1
    /\ intFile.exists /\ Len(intFile.rows) >= 20
    /\ tmpFile.exists /\ tmpFile.rows # <<>> /\ ~outFile.exists
    /\ errors # <<>> /\ ioFails = 0

\* the output file as the current run found it
OutAtStart == IF ends = <<>> THEN NoFile ELSE ends[Len(ends)].out

\* C19: whenever the process is killed, the output file is either what it
\* was when the run started or the complete set of accumulated rows under
\* the header, never something in between (no file-system fault having
\* occurred).
C19_AtomicFinalize ==
    [][(KillStep /\ ioFails = 0)
        => \/ outFile = OutAtStart
           \/ /\ outFile.exists /\ outFile.hdr
              /\ outFile.rows = MapSeq(results, CsvRow)]_vars

\* the work items a pool thread has taken up so far
StartedItems == {i \in 1..Len(todo) : i <= Cardinality(wdone) + scn.workers}

\* C20: once the interrupt has been received, no work item that had not
\* started is started, no further completion is accepted, and the process
\* is not kept waiting for work items: it may exit while some are unfinished.
C20_PromptInterrupt ==
    /\ [][(InterruptHandling /\ pc' # "killed")
           => /\ StartedItems' = StartedItems
              /\ completed' = completed
              /\ results' = results /\ errors' = errors]_vars
    /\ [](pc = "interrupted" => exit_status # 0)

\* the previous run ended by the interrupt handler, and this run has started
\* and has not written the interrupted file itself
AfterInterruptedRun ==
    /\ ends # <<>> /\ ends[Len(ends)].how = "interrupted"
    /\ pc \notin {"idle", "int_save_w", "interrupted", "killed", "crashed", "config_error"}

\* C21: the run that follows a cooperative cancellation has as prior state
\* every success row that was accumulated (and snapshotted) before the
\* cancellation and dispatches none of their keys again (no file-system
\* fault having occurred).
C21_InterruptedProgressKept ==
    (AfterInterruptedRun /\ ioFails = 0)
    => /\ \A k \in 1..Len(intFile.rows) :
             \E j \in 1..Len(priorRows) : priorRows[j] = intFile.rows[k]
       /\ \A k \in 1..Len(todo) : Basename(todo[k]) \notin KeysOf(intFile.rows)

\* C22: for every limit the caller sets (0 and limits below the number of
\* processed keys included), a run that starts either keeps the number of
\* processed keys plus the number of dispatched items within the limit, or
\* dispatches nothing.
C22_LimitBound ==
    [][(StartStep /\ sample_size'.given /\ readFail' = 0)
        => \/ Cardinality(already_processed') + Len(todo') <= sample_size'.n
           \/ Len(todo') = 0]_vars

\* C23: a run that finds no work item left after filtering and capping
\* returns at once with status 0, submits nothing, and leaves the output
\* file, the temp file, the errors file and the interrupted file exactly as
\* they were (so repeating such a run changes nothing either).
C23_NoWorkNoChange ==
    [][(StartStep /\ todo' = <<>>)
        => /\ pc' = "done" /\ exit_status' = EXIT_OK
           /\ wdone' = {} /\ finq' = <<>> /\ completed' = 0
           /\ Files' = Files]_vars

\* a second run that found nothing to do after a first run that did the work
C23_Witness ==
    /\ run = 2 /\ pc = "done" /\ todo = <<>> /\ completed = 0
    /\ ends[1].how = "done" /\ outFile.exists /\ errFile.exists

\* the completions the collection loop has taken from the pool so far
Handled == SubSeq(corder, 1, completed)
\* number of ErrorRecords of the run for path p
ErrorCount(p) == Cardinality({k \in 1..Len(errors) : errors[k].pdf_path = p})

\* C24: no exception leaves a worker: every completion is a (path, record or
\* none, error or none) triple, whatever went wrong in extraction, model
\* call or conversion; every completion without a record that the loop has
\* handled has exactly one ErrorRecord, every one with a record has none;
\* the orchestrator does not crash for it, and a run that ends normally has
\* handled every work item.
C24_WorkerBoundary ==
    /\ \A k \in 1..Len(corder) : corder[k].result.form \in {"none", "dict"}
    /\ completed <= Len(corder)
    /\ \A k \in 1..Len(Handled) :
          ErrorCount(Handled[k].path) = IF Handled[k].result.form = "none" THEN 1 ELSE 0
    /\ pc = "crashed" => ioFails > 0
    /\ EndedNormally => completed = Len(todo) /\ Len(errors) + success_count = Len(todo)

\* an exception left process_resume for the third item; the wrapper turned
\* it into an error, and the fourth item got its row afterwards
C24_Witness ==
    /\ EndedNormally /\ ioFails = 0
    /\ \E k \in 1..Len(corder) : \E l \in 1..Len(corder) :
          /\ k < l
          /\ corder[k].error = "Processing error"
          /\ HasError(errFile.rows, Basename(corder[k].path))
          /\ corder[l].result.form = "dict"
          /\ HasRow(outFile, Basename(corder[l].path))

\* main has caught the ValueError of the constructor and exited
ConfigAborted == pc = "config_error"

\* C25: a configuration the provider cannot work with (no credential, a
\* client that cannot be built, an unknown provider) never gets past the
\* construction of the parser: the process exits with a non-zero status,
\* no prior row has been read, no item dispatched or completed, no file
\* written, and the step that aborts leaves every file as it was.
C25_FatalConfigAbortsEarly ==
    /\ [](provider_config # "ok"
            => /\ ConfigAborted /\ exit_status = EXIT_FAILURE
               /\ results = <<>> /\ priorRows = <<>> /\ already_processed = {}
               /\ todo = <<>> /\ corder = <<>> /\ wlog = <<>>)
    /\ [][provider_config' # "ok" => Files' = Files]_vars

\* the second start, without its credential, on a directory whose first run
\* left an output file
C25_Witness ==
    /\ ConfigAborted /\ provider_config = "no_key" /\ run = 2
    /\ ends[1].how = "done" /\ outFile.rows # <<>>

\* C26: a success file always starts with the fixed header, and a file the
\* pipeline wrote, read back by the next run and written again, is the same
\* file: same header, same rows, every value under its column.
C26_RoundTrip ==
    /\ csv_disk.exists => csv_disk.lines[1] = FIELDNAMES
    /\ csv_pc = "resaved" => csv_disk = csv_first

\* what does hold of the round trip: header and column order are those of
\* FIELDNAMES in every write, and every value comes back under its column,
\* changed by the newline translation of the read only
C26_ColumnsKept ==
    /\ csv_disk.exists => csv_disk.lines[1] = FIELDNAMES
    /\ csv_pc = "resaved"
       => /\ Len(csv_disk.lines) = Len(csv_first.lines)
          /\ \A k \in 1..Len(csv_disk.lines) : \A c \in 1..Len(FIELDNAMES) :
                csv_disk.lines[k][c] = UniversalNewlines(csv_first.lines[k][c])

\* C27: every record the collection loop has appended to the success
\* accumulator carries in resume_filename the file name of the work item it
\* was extracted from, whatever name the model put there.
C27_RecordCarriesKey ==
    \A k \in 1..Len(Handled) :
        Handled[k].result.form = "dict"
        => /\ \E j \in 1..Len(results) : results[j] = Handled[k].result
           /\ Handled[k].result.resume_filename = Basename(Handled[k].path)

\* line 524: the text is empty or has fewer than 50 characters once stripped
TooShort(t) == TextLen(t) = 0 \/ StripLen(t) < MIN_TEXT_LEN
\* how often a worker made a call
TimesCalled(made, name) == Cardinality({j \in 1..Len(made) : made[j] = name})

\* C28: an item whose text extraction raises, or whose text is empty or
\* near empty, is finished for the run at that point: its worker called the
\* extraction once and never parse_resume_with_llm (so neither the rate
\* limiter nor the model), it completed once without a record, and once the
\* loop has handled it there is exactly one ErrorRecord for it.
C28_TextFailureIsTerminal ==
    \A k \in 1..Len(corder) :
        (corder[k].fault = "extract" \/ TooShort(Text(scn, Basename(corder[k].path))))
        => /\ TimesCalled(corder[k].calls, "parse_resume_with_llm") = 0
           /\ TimesCalled(corder[k].calls, "extract_text_from_pdf") = 1
           /\ corder[k].result.form = "none"
           /\ \A j \in 1..Len(corder) : j # k => corder[j].path # corder[k].path
           /\ k <= completed => ErrorCount(corder[k].path) = 1

\* a run that ended normally with a blank document and a document whose
\* extraction raised, both in the errors file
C28_Witness ==
    /\ EndedNormally /\ ioFails = 0
    /\ \E k \in 1..Len(corder) : \E l \in 1..Len(corder) :
          /\ corder[k].fault = "extract"
          /\ Kind(scn, Basename(corder[l].path)) = "blank"
          /\ HasError(errFile.rows, Basename(corder[k].path))
          /\ HasError(errFile.rows, Basename(corder[l].path))

\* C29: the start times of any two invocations of the model, whichever the
\* workers and whichever the attempts, are at least delay apart (stated of
\* every invocation and the one before it, which gives it for all pairs).
C29_CallSpacing ==
    \A j \in 1..Len(calls) : \A k \in 1..Len(calls) :
        j < k => calls[k].at - calls[j].at >= delay

\* the worker is inside the with block of _rate_limited_request
InGate(w) == r_pc[w] \in {"locked", "tosleep", "sleeping", "stamp"}

\* C30: a worker holds the rate limiter's lock exactly while it is inside
\* _rate_limited_request, never during a model call or a backoff sleep; a
\* worker that wants to enter the gate and cannot is kept out by a worker
\* that is inside the gate, never by one in a model call or in backoff.
C30_LockOnlyInGate ==
    /\ \A w \in Workers : rate_limit_lock = w <=> InGate(w)
    /\ \A w \in Workers : r_pc[w] \in {"calling", "backoff"} => rate_limit_lock # w
    /\ \A v \in Workers :
          (r_pc[v] = "idle" /\ Len(admits) < MaxAdmits /\ ~ENABLED RAcquire(v))
          => \E u \in Workers : u # v /\ InGate(u)

\* worker 1 is in its backoff sleep; worker 2 went through the gate after
\* that sleep began and its model call is in flight
C30_Witness ==
    /\ r_pc[1] = "backoff" /\ r_pc[2] = "calling"
    /\ clock < r_wake[1]
    /\ calls[Len(calls)].w = 2
    /\ admits[Len(admits)] > r_wake[1] - WaitTime(r_attempt[1])
    /\ calls[Len(calls)].at = admits[Len(admits)]

\* C31: in parse_resume_with_llm every backoff wait is followed by a further
\* invocation of the model: no wait is made after the third attempt, and
\* when the call has returned every wait made after attempt n has been
\* followed by attempt n + 1.
C31_WaitThenAttempt ==
    /\ \A k \in 1..Len(p_waits) : p_waits[k].after < MAX_ATTEMPTS - 1
    /\ p_pc = "done"
       => \A k \in 1..Len(p_waits) :
             \E j \in 1..Len(p_calls) : p_calls[j].attempt = p_waits[k].after + 1

\* a summary that counts the rows loaded at startup among the successes
SummaryAllRows == [attempted |-> Len(todo), successful |-> Len(results), failed |-> Len(errors)]

\* lines 732-740: the counts of the final summary
Summary == [attempted |-> Len(todo), successful |-> success_count, failed |-> Len(errors)]

\* the completions handled so far that carried a record
HandledRecords == {k \in 1..Len(Handled) : Handled[k].result.form = "dict"}

\* C32: while a run collects, the number of handled completions is the
\* number of successes plus the number of ErrorRecords; every handled item
\* is in exactly one of the two accumulators (one new row or one
\* ErrorRecord); when the run has ended normally the succeeded and failed
\* counts of the summary add up to the attempted count, the number of
\* dispatched items.
C32_CountsAddUp ==
    /\ completed = success_count + Len(errors)
    /\ success_count = Cardinality(HandledRecords)
    /\ Len(results) = Len(priorRows) + success_count
    /\ \A k \in 1..Len(Handled) :
          IF Handled[k].result.form = "dict"
            THEN /\ ErrorCount(Handled[k].path) = 0
                 /\ \E j \in (Len(priorRows) + 1)..Len(results) : results[j] = Handled[k].result
            ELSE ErrorCount(Handled[k].path) = 1
    /\ EndedNormally
       => /\ Summary.successful + Summary.failed = Summary.attempted
          /\ Summary.attempted = Cardinality(Dispatched)

\* a second run with prior rows that ended normally with successes and
\* failures of its own
C32_Witness ==
    /\ EndedNormally /\ priorRows # <<>>
    /\ Summary.successful >= 1 /\ Summary.failed >= 1

\* the temp file is a checkpoint this run has written completely
TmpIsCheckpoint ==
    /\ tmpFile.exists /\ tmpFile.hdr
    /\ \E k \in 1..Len(wlog) :
          /\ wlog[k].file = "tmp" /\ wlog[k].st = "ok"
          /\ \A j \in (k+1)..Len(wlog) : wlog[j].file # "tmp"
\* this run has written the named success file completely
WroteOk(file) == \E k \in 1..Len(wlog) : wlog[k].file = file /\ wlog[k].st = "ok"
\* a step of a run that neither starts nor ends the process
InRunStep == pc \notin {"idle", "killed"} /\ pc' \notin {"idle", "killed"}

\* C33: within a run the success accumulator only grows at its end; hence
\* a checkpoint in the temp file starts with the rows loaded at startup and
\* is a prefix of the accumulated rows, so of every later checkpoint, and
\* of the final and the interrupted file, which hold the accumulated rows.
C33_CheckpointsArePrefixes ==
    /\ [][InRunStep => IsPrefix(results, results')]_vars
    /\ [](TmpIsCheckpoint
            => /\ IsPrefix(priorRows, tmpFile.rows)
               /\ IsPrefix(tmpFile.rows, MapSeq(results, CsvRow)))
    /\ [](WroteOk("out") => outFile.rows = MapSeq(results, CsvRow))
    /\ [](WroteOk("int") => intFile.rows = MapSeq(results, CsvRow))

\* a run with prior rows that wrote a checkpoint at 20 completions and the
\* final file after it
C33_Witness ==
    /\ EndedNormally /\ priorRows # <<>> /\ WroteOk("out")
    /\ \E k \in 1..Len(wlog) : wlog[k] = [file |-> "tmp", at |-> CHECKPOINT_EVERY, st |-> "ok"]
    /\ Len(outFile.rows) > Len(priorRows)

\* every accumulated row is a row of the output file
OutHoldsResultSet ==
    /\ outFile.exists /\ outFile.hdr
    /\ \A k \in 1..Len(results) :
          \E j \in 1..Len(outFile.rows) : outFile.rows[j] = CsvRow(results[k])
\* the run returned at once, its prior rows having come from the temp file
ReturnedEarlyFromTmp ==
    /\ pc = "done" /\ todo = <<>> /\ priorRows # <<>>
    /\ ~OutAtStart.exists

\* C34: when process_all_resumes has returned normally with a non-empty
\* result set (prior rows and new successes), the output file exists and
\* holds every row of the set (no read or write fault having occurred).
C34_FinalHoldsResultSet ==
    (ReturnedNormally /\ results # <<>> /\ ioFails = 0 /\ readFail = 0)
    => OutHoldsResultSet

\* the same for every return but the one with prior rows from the temp file
\* and no work left
C34_ExceptEarlyFromTmp ==
    (ReturnedNormally /\ results # <<>> /\ ioFails = 0 /\ readFail = 0
       /\ ~ReturnedEarlyFromTmp)
    => OutHoldsResultSet

\* ---------------------------------------------------------------------
\* The files of one run by their path names (lines 647-719, 742-785)
\* ---------------------------------------------------------------------

MaxPathItems == 21

\* the two texts of output_file.replace('.csv', '_errors.csv')
CSV == <<".", "c", "s", "v">>
ERRORS_CSV == <<"_", "e", "r", "r", "o", "r", "s", ".", "c", "s", "v">>

StartsWith(s, t) == Len(s) >= Len(t) /\ SubSeq(s, 1, Len(t)) = t

\* str.replace(old, new): every occurrence of old, from the left, without
\* overlap
RECURSIVE Replace(_, _, _)
Replace(s, old, new) ==
    IF s = <<>> THEN <<>>
    ELSE IF StartsWith(s, old)
           THEN new \o Replace(SubSeq(s, Len(old) + 1, Len(s)), old, new)
           ELSE <<Head(s)>> \o Replace(Tail(s), old, new)

\* f"{output_file}.tmp" and f"{output_file}.interrupted"
TmpPath(o) == o \o <<".", "t", "m", "p">>
IntPath(o) == o \o <<".", "i", "n", "t", "e", "r", "r", "u", "p", "t", "e", "d">>
\* output_file.replace('.csv', '_errors.csv')
ErrorsPath(o) == Replace(o, CSV, ERRORS_CSV)

\* values of --output: the default shape, no extension, another extension,
\* upper case, '.csv' twice, '.csv' in the middle
OutputFiles ==
    { <<"c", ".", "c", "s", "v">>,
      <<"c">>,
      <<"c", ".", "t", "x", "t">>,
      <<"c", ".", "C", "S", "V">>,
      <<"c", ".", "c", "s", "v", ".", "c", "s", "v">>,
      <<"c", ".", "c", "s", "v", ".", "b", "a", "k">> }

\* open(path, 'w') and the rows written: the file is replaced
WriteFile(fsys, path, content) ==
    [p \in (DOMAIN fsys) \cup {path} |-> IF p = path THEN content ELSE fsys[p]]
\* os.remove(path) when the path exists
RemoveFile(fsys, path) == [p \in (DOMAIN fsys) \ {path} |-> fsys[p]]

\* _save_results and _save_errors on a list of n rows
SaveResultsAt(fsys, n, path) ==
    IF n = 0 THEN fsys ELSE WriteFile(fsys, path, [kind |-> "success", n |-> n])
SaveErrorsAt(fsys, n, path) ==
    IF n = 0 THEN fsys ELSE WriteFile(fsys, path, [kind |-> "errors", n |-> n])

InitPaths ==
    /\ OrchOff /\ ParseOff /\ RateOff /\ CsvOff /\ PoolOff
    /\ output_file \in OutputFiles
    /\ fs = NoFiles /\ f_pc = "collect"
    /\ f_results = 0 /\ f_errors = 0 /\ f_completed = 0

\* lines 647-681: one completion is handled, with the checkpoint when due
FHandle ==
    /\ f_pc = "collect" /\ f_completed < MaxPathItems
    /\ \E ok \in BOOLEAN :
          LET r == IF ok THEN f_results + 1 ELSE f_results
              e == IF ok THEN f_errors ELSE f_errors + 1
              checkpointed == SaveErrorsAt(SaveResultsAt(fs, r, TmpPath(output_file)),
                                           e, ErrorsPath(output_file))
          IN  /\ f_results' = r /\ f_errors' = e
              /\ f_completed' = f_completed + 1
              /\ fs' = IF CheckpointDue(f_completed') THEN checkpointed ELSE fs
    /\ UNCHANGED <<output_file, f_pc>>
    /\ UNCHANGED <<ovars, pvars, rvars, cvars, lvars>>

\* lines 683-690: KeyboardInterrupt during collection
FInterrupt ==
    /\ f_pc = "collect"
    /\ fs' = SaveResultsAt(fs, f_results, IntPath(output_file))
    /\ f_pc' = "interrupted"
    /\ UNCHANGED <<output_file, f_results, f_errors, f_completed>>
    /\ UNCHANGED <<ovars, pvars, rvars, cvars, lvars>>

\* lines 694-719: the final file, the temp file removed, the errors file
FFinalize ==
    /\ f_pc = "collect" /\ f_completed = MaxPathItems
    /\ LET saved == SaveResultsAt(fs, f_results, output_file)
           cleaned == IF f_results = 0 THEN saved
                      ELSE RemoveFile(saved, TmpPath(output_file))
       IN  fs' = SaveErrorsAt(cleaned, f_errors, ErrorsPath(output_file))
    /\ f_pc' = "done"
    /\ UNCHANGED <<output_file, f_results, f_errors, f_completed>>
    /\ UNCHANGED <<ovars, pvars, rvars, cvars, lvars>>

NextPaths == FHandle \/ FInterrupt \/ FFinalize

SpecPaths == InitPaths /\ [][NextPaths]_vars

\* the three paths success rows are written to
SuccessPaths == {output_file, TmpPath(output_file), IntPath(output_file)}
\* the output path has '.csv' in it
HasCsv(o) == \E k \in 1..Len(o) : StartsWith(SubSeq(o, k, Len(o)), CSV)
\* the errors path is none of the success paths and none of them holds
\* error rows
ErrorsApart ==
    /\ ErrorsPath(output_file) \notin SuccessPaths
    /\ \A p \in SuccessPaths \cap DOMAIN fs : fs[p].kind = "success"

\* a file exists at the errors path
ErrorsWritten == f_pc # "off" /\ ErrorsPath(output_file) \in DOMAIN fs

\* C35: for every output path, once the run has written at the errors path,
\* that path differs from the output path, the temp path and the
\* interrupted path, and none of these three holds error rows: no write of
\* error rows has replaced success rows.
C35_ErrorsPathApart == ErrorsWritten => ErrorsApart

\* the same for the output paths with '.csv' in them
C35_WithCsv == (ErrorsWritten /\ HasCsv(output_file)) => ErrorsApart

\* a finished run with successes and failures leaves its success rows in
\* the output file
C35_SuccessRowsKept ==
    (f_pc = "done" /\ f_results > 0 /\ f_errors > 0)
    => fs[output_file] = [kind |-> "success", n |-> f_results]

\* the ErrorRecords of the completions handled so far, in completion order
HandledFailures ==
    MapSeq(SelectSeq(Handled, LAMBDA f : f.result.form # "dict"),
           LAMBDA f : ErrorRecord(f.path, f.error))
\* the errors file is written in this step
ErrorsWriteStep == errFile' # errFile /\ errFile'.hdr
\* record e of the errors file an earlier run left, with no row under its
\* key in the success file this run starts from
FailedBefore(e) ==
    /\ run > 1 /\ errFile.exists /\ errFile.hdr
    /\ e \in Range(errFile.rows)
    /\ e.resume_filename \notin KeysOf(ChosenFile(outFile, tmpFile).rows)
\* the key of e is not in the processed-key set the starting run builds
NotFailedKeys(e) == e.resume_filename \notin already_processed'

\* C36 as stated: an item that failed in one run is not in the processed-key
\* set of the next run and is dispatched again there; the errors file a run
\* writes holds that run's ErrorRecords only, one per failed item, in
\* completion order.
C36_FailedRedispatched ==
    /\ [][StartStep => \A e \in Range(errFile.rows) :
                          FailedBefore(e)
                          => NotFailedKeys(e) /\ e.pdf_path \in Range(todo')]_vars
    /\ [](errors = HandledFailures)
    /\ [][ErrorsWriteStep => errFile'.rows = errors]_vars

\* C36 amended: the item is dispatched again when the next run has no
\* sample limit in force; with a limit it is dispatched or cut off by the
\* limit, and never taken for processed.
C36_FailedRedispatchedUnlessCapped ==
    /\ [][StartStep => \A e \in Range(errFile.rows) :
                          FailedBefore(e)
                          => /\ NotFailedKeys(e)
                             /\ e.pdf_path \in Range(FilterProcessed(PdfFiles(scn), already_processed'))
                             /\ ~Truthy(sample_size') => e.pdf_path \in Range(todo')]_vars
    /\ [](errors = HandledFailures)
    /\ [][ErrorsWriteStep => errFile'.rows = errors]_vars

\* the first run went through all four documents and failed on the blank
\* one; the second run has dispatched it again, has failed on two items
\* itself and has written them to the errors file in completion order
C36_Witness ==
    /\ run = 2 /\ ends[1].how = "done" /\ ends[1].sample = NoneSample /\ pc = "done"
    /\ scn.name = "small" /\ Len(errors) = 2 /\ errFile = ErrorsFile(errors)
    /\ errors[1].pdf_path = Path(3) /\ errors[2].pdf_path = Path(2)
    /\ Path(2) \in Range(todo) /\ Path(3) \in Range(todo)

\* the records of the handled completions that succeeded, in completion order
HandledSuccesses ==
    MapSeq(SelectSeq(Handled, LAMBDA f : f.result.form = "dict"), LAMBDA f : f.result)
\* the rows the run has appended to the prior ones
NewRows == SubSeq(results, Len(priorRows) + 1, Len(results))
\* a worker thread finishes in this step
WorkerStep == InRunStep /\ wdone' # wdone
\* an accumulator changes in a step of a run
AccumulatorStep == InRunStep /\ (results' # results \/ errors' # errors)
\* exactly one record is appended to exactly one accumulator
OneAppend ==
    \/ /\ errors' = errors
       /\ Len(results') = Len(results) + 1 /\ IsPrefix(results, results')
    \/ /\ results' = results
       /\ Len(errors') = Len(errors) + 1 /\ IsPrefix(errors, errors')

\* C37: a worker's step changes neither accumulator (it only hands over its
\* triple); the accumulators change only in the loop of the orchestrator, by
\* one record appended per handled completion; so, whatever the order in
\* which the workers finish, the new rows are exactly the records of the
\* handled successes and the error list exactly the ErrorRecords of the
\* handled failures, in completion order: nothing lost, doubled or altered.
C37_SingleConsumer ==
    /\ [][WorkerStep => /\ results' = results /\ errors' = errors
                        /\ Len(finq') = Len(finq) + 1]_vars
    /\ [][AccumulatorStep => /\ pc = "collect" /\ completed' = completed + 1
                             /\ ~WorkerStep /\ OneAppend]_vars
    /\ [](NewRows = HandledSuccesses)
    /\ [](errors = HandledFailures)

\* two workers: the second item submitted finished first and two completions
\* waited at once; the run has handled all four
C37_Witness ==
    /\ scn.workers = 2 /\ run = 1 /\ pc = "done" /\ completed = 4
    /\ corder[1].path = todo[2] /\ corder[3].path = todo[4]
    /\ Len(NewRows) = 3 /\ Len(errors) = 1

\* ---------------------------------------------------------------------
\* One run of the pool from dispatch to its end (lines 640-692), each
\* worker going through process_resume, the gate (272-279) and the retry
\* loop (459-506).  Time is left out: a sleep is a step that ends.
\* ---------------------------------------------------------------------

MaxPoolItems == 3

InitPool ==
    /\ OrchOff /\ ParseOff /\ RateOff /\ CsvOff /\ PathsOff
    /\ l_items \in 1..MaxPoolItems
    /\ l_next = 1 /\ l_pc = "collect"
    /\ l_wpc = [w \in Workers |-> "free"]
    /\ l_item = [w \in Workers |-> 0]
    /\ l_attempt = [w \in Workers |-> 0]
    /\ l_lock = 0 /\ l_done = {} /\ l_completed = 0

\* the executor is inside its with block, or leaving it (shutdown waits for
\* the queued work)
PoolRuns == l_pc \in {"collect", "shutdown"}

\* lines 640-645: a free thread of the pool starts the next queued item
LTake(w) ==
    /\ PoolRuns /\ l_wpc[w] = "free" /\ l_next <= l_items
    /\ l_item' = [l_item EXCEPT ![w] = l_next]
    /\ l_next' = l_next + 1
    /\ l_wpc' = [l_wpc EXCEPT ![w] = "extract"]
    /\ UNCHANGED <<l_items, l_pc, l_attempt, l_lock, l_done, l_completed>>
    /\ UNCHANGED <<ovars, pvars, rvars, cvars, fvars>>

\* process_resume_parallel_safe returns its triple: the future is done
LReturns(w) ==
    /\ l_done' = l_done \cup {l_item[w]}
    /\ l_wpc' = [l_wpc EXCEPT ![w] = "free"]
    /\ l_item' = [l_item EXCEPT ![w] = 0]
    /\ l_attempt' = [l_attempt EXCEPT ![w] = 0]

\* lines 523-530: the text extraction returns; without usable text the
\* item ends here, else parse_resume_with_llm is called (line 453: the gate)
LExtract(w) ==
    /\ l_wpc[w] = "extract"
    /\ \E usable \in BOOLEAN :
         IF usable
           THEN /\ l_wpc' = [l_wpc EXCEPT ![w] = "gate"]
                /\ UNCHANGED <<l_item, l_attempt, l_done>>
           ELSE LReturns(w)
    /\ UNCHANGED <<l_items, l_next, l_pc, l_lock, l_completed>>
    /\ UNCHANGED <<ovars, pvars, rvars, cvars, fvars>>

\* line 274: the lock is taken
LAcquire(w) ==
    /\ l_wpc[w] = "gate" /\ LockFree(l_lock)
    /\ l_lock' = w
    /\ l_wpc' = [l_wpc EXCEPT ![w] = "locked"]
    /\ UNCHANGED <<l_items, l_next, l_pc, l_item, l_attempt, l_done, l_completed>>
    /\ UNCHANGED <<ovars, pvars, rvars, cvars, fvars>>

\* lines 275-278: too early, time.sleep is entered, or not
LCheck(w) ==
    /\ l_wpc[w] = "locked"
    /\ \E early \in BOOLEAN :
         l_wpc' = [l_wpc EXCEPT ![w] = IF early THEN "sleeping" ELSE "stamp"]
    /\ UNCHANGED <<l_items, l_next, l_pc, l_item, l_attempt, l_lock, l_done, l_completed>>
    /\ UNCHANGED <<ovars, pvars, rvars, cvars, fvars>>

\* line 278: time.sleep returns
LWake(w) ==
    /\ l_wpc[w] = "sleeping"
    /\ l_wpc' = [l_wpc EXCEPT ![w] = "stamp"]
    /\ UNCHANGED <<l_items, l_next, l_pc, l_item, l_attempt, l_lock, l_done, l_completed>>
    /\ UNCHANGED <<ovars, pvars, rvars, cvars, fvars>>

\* line 279 and the end of the with block; line 459: the loop starts
LStamp(w) ==
    /\ l_wpc[w] = "stamp"
    /\ l_lock' = Release(l_lock, w)
    /\ l_wpc' = [l_wpc EXCEPT ![w] = "create"]
    /\ l_attempt' = [l_attempt EXCEPT ![w] = 0]
    /\ UNCHANGED <<l_items, l_next, l_pc, l_item, l_done, l_completed>>
    /\ UNCHANGED <<ovars, pvars, rvars, cvars, fvars>>

\* lines 463-506: the invocation returns a record or raises; the error is
\* slept on, answered by the next attempt, or caught by the outer except
LCreate(w) ==
    /\ l_wpc[w] = "create"
    /\ \E o \in CreateOutcomes :
         IF o.ok THEN LReturns(w)
         ELSE IF IsTransient(o)
           THEN /\ l_wpc' = [l_wpc EXCEPT ![w] = "backoff"]
                /\ UNCHANGED <<l_item, l_attempt, l_done>>
         ELSE IF IsValidation(o, l_attempt[w])
           THEN /\ l_attempt' = [l_attempt EXCEPT ![w] = l_attempt[w] + 1]
                /\ UNCHANGED <<l_wpc, l_item, l_done>>
         ELSE LReturns(w)
    /\ UNCHANGED <<l_items, l_next, l_pc, l_lock, l_completed>>
    /\ UNCHANGED <<ovars, pvars, rvars, cvars, fvars>>

\* lines 482-483: time.sleep(wait_time) returns, continue
LBackoffEnds(w) ==
    /\ l_wpc[w] = "backoff"
    /\ IF InLoop(l_attempt[w] + 1)
         THEN /\ l_attempt' = [l_attempt EXCEPT ![w] = l_attempt[w] + 1]
              /\ l_wpc' = [l_wpc EXCEPT ![w] = "create"]
              /\ UNCHANGED <<l_item, l_done>>
         ELSE LReturns(w)
    /\ UNCHANGED <<l_items, l_next, l_pc, l_lock, l_completed>>
    /\ UNCHANGED <<ovars, pvars, rvars, cvars, fvars>>

\* lines 647-681: as_completed yields a done future, the loop handles it
\* (with the checkpoint when due); after the last one the with block is
\* left and the finalization (line 694) is reached
LHandle ==
    /\ l_pc = "collect" /\ l_completed < Cardinality(l_done)
    /\ l_completed' = l_completed + 1
    /\ l_pc' = IF l_completed + 1 = l_items THEN "final" ELSE "collect"
    /\ UNCHANGED <<l_items, l_next, l_wpc, l_item, l_attempt, l_lock, l_done>>
    /\ UNCHANGED <<ovars, pvars, rvars, cvars, fvars>>

\* KeyboardInterrupt in the loop: the with block is left by the exception
LInterrupt ==
    /\ l_pc = "collect"
    /\ l_pc' = "shutdown"
    /\ UNCHANGED <<l_items, l_next, l_wpc, l_item, l_attempt, l_lock, l_done, l_completed>>
    /\ UNCHANGED <<ovars, pvars, rvars, cvars, fvars>>

\* the executor's shutdown has waited for all work; lines 683-690
LShutdownDone ==
    /\ l_pc = "shutdown" /\ l_done = 1..l_items
    /\ l_pc' = "interrupted"
    /\ UNCHANGED <<l_items, l_next, l_wpc, l_item, l_attempt, l_lock, l_done, l_completed>>
    /\ UNCHANGED <<ovars, pvars, rvars, cvars, fvars>>

NextPool ==
    \/ \E w \in Workers : LTake(w)
    \/ \E w \in Workers : LExtract(w)
    \/ \E w \in Workers : LAcquire(w)
    \/ \E w \in Workers : LCheck(w)
    \/ \E w \in Workers : LWake(w)
    \/ \E w \in Workers : LStamp(w)
    \/ \E w \in Workers : LCreate(w)
    \/ \E w \in Workers : LBackoffEnds(w)
    \/ LHandle
    \/ LInterrupt
    \/ LShutdownDone

\* every thread that can take a step eventually takes one (a fair
\* scheduler); every sleep, extraction and invocation returns; nothing is
\* assumed about the interrupt
PoolFairness ==
    /\ \A w \in Workers :
          /\ WF_vars(LTake(w)) /\ WF_vars(LExtract(w)) /\ WF_vars(LAcquire(w))
          /\ WF_vars(LCheck(w)) /\ WF_vars(LWake(w)) /\ WF_vars(LStamp(w))
          /\ WF_vars(LCreate(w)) /\ WF_vars(LBackoffEnds(w))
    /\ WF_vars(LHandle)
    /\ WF_vars(LShutdownDone)

SpecPoolFair == InitPool /\ [][NextPool]_vars /\ PoolFairness

\* C38: under a fair scheduler, with every sleep, text extraction and model
\* invocation returning: every worker that waits for the lock of the rate
\* limiter gets through the gate to its invocation; the lock, once held, is
\* released; every work item of the list is eventually done; and the run
\* reaches the finalization unless it is interrupted.
C38_Progress ==
    /\ \A w \in Workers : (l_wpc[w] = "gate") ~> (l_wpc[w] = "create")
    /\ \A w \in Workers : (l_lock = w) ~> (l_lock # w)
    /\ \A i \in 1..MaxPoolItems : (i <= l_items) ~> (i \in l_done)
    /\ (l_pc = "collect") ~> (l_pc \in {"final", "shutdown"})
    /\ (l_pc = "shutdown") ~> (l_pc = "interrupted")

\* worker 1 waits at the gate while worker 2 sleeps in it with the lock,
\* on the last item, after one completion has been handled
C38_Witness ==
    /\ l_wpc[1] = "gate" /\ l_lock = 2 /\ l_wpc[2] = "sleeping"
    /\ l_next > l_items /\ l_completed = 1 /\ l_pc = "collect"

\* test_dashboard.py, test_csv_parsing: the columns the dashboard needs
required_columns ==
    << <<"candidate_name">>, <<"email">>, <<"overall_score">>, <<"bachelors_university">>,
       <<"github_link">>, <<"linkedin_link">>, <<"estimated_job_level">> >>

\* the header line of the success file on disk
HeaderOf(file) == file.lines[1]

\* C39: every success file _save_results has written has a header that holds
\* every column test_csv_parsing requires, names no column twice, and names
\* exactly the fields of the ResumeData schema.
C39_HeaderMatchesSchema ==
    csv_disk.exists
    => /\ Range(required_columns) \subseteq Range(HeaderOf(csv_disk))
       /\ Range(HeaderOf(csv_disk)) = SchemaFields
       /\ Len(HeaderOf(csv_disk)) = Cardinality(SchemaFields)

\* a file of two rows has been written, and written again after a load
C39_Witness ==
    /\ csv_pc = "resaved" /\ csv_disk.exists
    /\ Len(csv_disk.lines) = 3
    /\ Len(HeaderOf(csv_disk)) = 55

\* line 493: the field names the strengthened instruction lists
STRICT_FIELD_NAMES ==
    << <<"resume_filename">>, <<"candidate_name">>, <<"email">>, <<"github_link">>,
       <<"linkedin_link">>, <<"country">>, <<"city">>, <<"estimated_job_level">>,
       <<"programming_experience_years">>, <<"ai_experience_years">>,
       <<"college_education_years">>, <<"highest_degree">>, <<"bachelors_university">>,
       <<"graduate_university">>, <<"university_tier">>, <<"overall_world_ranking">>,
       <<"cs_world_ranking">>, <<"bachelors_gpa">>, <<"masters_gpa">>, <<"companies_worked">>,
       <<"company_tier">>, <<"javascript_skill_level">>, <<"python_skill_level">>,
       <<"cloud_skill_level">>, <<"llm_skill_level">>, <<"cs_internships">>,
       <<"cloud_experience_years">>, <<"llm_experience_years">>, <<"react_strength">>,
       <<"typescript_strength">>, <<"nextjs_strength">>, <<"api_design_strength">>,
       <<"tailwind_strength">>, <<"git_strength">>, <<"agile_strength">>,
       <<"aws_services_experience">>, <<"database_technologies">>, <<"ai_tools_experience">>,
       <<"llm_api_experience">>, <<"startup_experience_strength">>, <<"open_source_strength">>,
       <<"leadership_strength">>, <<"autonomy_indicators">>, <<"algorithms_strength">>,
       <<"system_design_strength">>, <<"academic_strength">>, <<"cs_strength">>,
       <<"industry_strength">>, <<"fullstack_strength">>, <<"opensource_strength">>,
       <<"accomplishments_strength">>, <<"overall_score">>, <<"accomplishment_1">>,
       <<"accomplishment_2">>, <<"accomplishment_3">> >>
\* line 495: "EXACT field count required: 50 fields"
STRICT_FIELD_COUNT == 50
\* lines 492-497: what the block "fields" of the strengthened prompt says
StrictInstruction == [names |-> STRICT_FIELD_NAMES, required |-> STRICT_FIELD_COUNT]

\* the instruction names every field of the schema and no other name
NamesTheSchema(ins) ==
    /\ Range(ins.names) = SchemaFields
    /\ Len(ins.names) = Cardinality(SchemaFields)
\* the invocations made with the strengthened prompt
StrictCalls == {k \in 1..Len(p_calls) : Strengthened(p_calls[k].prompt)}

\* C40: the strengthened instruction an invocation is re-issued with names
\* every field of the ResumeData schema and no other name, and the field
\* count it states as required is the number of fields of the schema.
C40_StrictInstructionMatchesSchema ==
    \A k \in StrictCalls :
        /\ NamesTheSchema(StrictInstruction)
        /\ StrictInstruction.required = Cardinality(SchemaFields)

\* what does hold: the names listed are those of the schema
C40_NamesMatch ==
    \A k \in StrictCalls : NamesTheSchema(StrictInstruction)

====
